---- MODULE Spec2Model ----
(***************************************************************************)
(* Model of the Lighthouse REST client library (nwidger/lighthouse): the   *)
(* resource services bins, projects, messages, milestones and tickets,     *)
(* their List / ListAll / Get / Create / Update / Delete operations, the   *)
(* JSON envelopes they encode and decode, and a remote server that answers *)
(* their requests.  One operation call runs at a time (the library is      *)
(* synchronous); every HTTP round trip is one step of the model.           *)
(***************************************************************************)
EXTENDS Integers, Sequences, FiniteSets, TLC

VARIABLES
    kind,      \* which resource service is in use (fixed per behaviour)
    srv,       \* the remote server's paging behaviour (fixed per behaviour)
    store,     \* the remote collection, in the order the server lists it
    pc,        \* "idle" | "listall" | "delete" | "done"
    call,      \* the operation call in progress: op, arg, opts, draft
    realOpts,  \* ListAll's local copy of the options (realOpts.Page is the loop counter)
    ts,        \* ListAll's accumulator (ts / ms in the source)
    target,    \* the entity a by-name Delete resolved, whose ID DeleteByID is called with
    ent,       \* the caller-supplied entity (what the *Bin / *Ticket pointer points to)
    log,       \* the HTTP exchanges of the current call, in order
    ret,       \* what the call returned
    prev,      \* summary of the previous completed call
    xp,        \* the export command: position, fetches made, archive entries written
    mg,        \* the migration: position, loop counters, calls made
    sh,        \* the same migration with every label, member and upload call succeeding
    dl,        \* the migration tool in -delete mode: position, calls made
    sg,        \* the migration tool's start-up: signal listeners, temporary directory
    fn,        \* filename: the title given and the name computed
    ld,        \* readLHExport: the lists loaded from the archive
    cv,        \* the conversion of tickets and versions to issue calls: mapping tables, last call
    ar,        \* the archive of one project: entities exported, paths written, entries read back
    lb,        \* the state labels of a project: labels created, labels attached
    vr,        \* the replay of one ticket's versions: timestamps, position
    bd         \* one service operation and the body of its HTTP response

(* The variables of the client library and of the command-line tools.      *)
clientVars == <<kind, srv, store, pc, call, realOpts, ts, target, ent, log, ret, prev>>

toolVars == <<xp, mg, sh, dl, sg, fn, ld, cv, ar, lb, vr, bd>>

(* What each command-line tool leaves unchanged: the client library and    *)
(* the other tools.                                                        *)
exportRest == <<clientVars, mg, sh, dl, sg, fn, ld, cv, ar, lb, vr, bd>>

migrateRest == <<clientVars, xp, dl, sg, fn, ld, cv, ar, lb, vr, bd>>

deleteRest == <<clientVars, xp, mg, sh, sg, fn, ld, cv, ar, lb, vr, bd>>

signalRest == <<clientVars, xp, mg, sh, dl, fn, ld, cv, ar, lb, vr, bd>>

filenameRest == <<clientVars, xp, mg, sh, dl, sg, ld, cv, ar, lb, vr, bd>>

loadRest == <<clientVars, xp, mg, sh, dl, sg, fn, cv, ar, lb, vr, bd>>

convertRest == <<clientVars, xp, mg, sh, dl, sg, fn, ld, ar, lb, vr, bd>>

archiveRest == <<clientVars, xp, mg, sh, dl, sg, fn, ld, cv, lb, vr, bd>>

labelsRest == <<clientVars, xp, mg, sh, dl, sg, fn, ld, cv, ar, vr, bd>>

replayRest == <<clientVars, xp, mg, sh, dl, sg, fn, ld, cv, ar, lb, bd>>

bodyRest == <<clientVars, xp, mg, sh, dl, sg, fn, ld, cv, ar, lb, vr>>

vars == <<clientVars, toolVars>>

-----------------------------------------------------------------------------
(* Bounds of the model.                                                    *)

MaxStore == 2
MaxPage == 4
MaxPerPage == 2

(* Program constants.                                                      *)

DefaultLimit == 30
MaxLimit == 100
StatusOK == 200
StatusCreated == 201

-----------------------------------------------------------------------------
(* Strings the code inspects character by character are sequences of       *)
(* one-character strings.                                                  *)

Digits == {"0", "1", "2", "3", "4", "5", "6", "7", "8", "9"}

DigitVal(c) ==
    CASE c = "0" -> 0 [] c = "1" -> 1 [] c = "2" -> 2 [] c = "3" -> 3
      [] c = "4" -> 4 [] c = "5" -> 5 [] c = "6" -> 6 [] c = "7" -> 7
      [] c = "8" -> 8 [] OTHER -> 9

DigitChar(d) ==
    CASE d = 0 -> "0" [] d = 1 -> "1" [] d = 2 -> "2" [] d = 3 -> "3"
      [] d = 4 -> "4" [] d = 5 -> "5" [] d = 6 -> "6" [] d = 7 -> "7"
      [] d = 8 -> "8" [] OTHER -> "9"

RECURSIVE DigitsValue(_)
DigitsValue(s) ==
    IF s = <<>> THEN 0
    ELSE DigitsValue(SubSeq(s, 1, Len(s) - 1)) * 10 + DigitVal(s[Len(s)])

AllDigits(s) == s # <<>> /\ \A i \in 1..Len(s) : s[i] \in Digits

(* strconv.ParseInt(str, 10, 64): an optional sign, then one or more       *)
(* decimal digits.                                                         *)
ParseInt(str) ==
    IF str # <<>> /\ str[1] \in {"+", "-"}
    THEN LET rest == Tail(str) IN
         IF AllDigits(rest)
         THEN [ok |-> TRUE,
               val |-> IF str[1] = "-" THEN 0 - DigitsValue(rest) ELSE DigitsValue(rest)]
         ELSE [ok |-> FALSE, val |-> 0]
    ELSE IF AllDigits(str) THEN [ok |-> TRUE, val |-> DigitsValue(str)]
         ELSE [ok |-> FALSE, val |-> 0]

RECURSIVE NatItoa(_)
NatItoa(n) ==
    IF n < 10 THEN <<DigitChar(n)>>
    ELSE Append(NatItoa(n \div 10), DigitChar(n % 10))

(* strconv.Itoa                                                            *)
Itoa(n) == IF n < 0 THEN <<"-">> \o NatItoa(0 - n) ELSE NatItoa(n)

LowerChar(c) ==
    CASE c = "A" -> "a" [] c = "B" -> "b" [] c = "C" -> "c" [] OTHER -> c

(* strings.ToLower                                                         *)
ToLower(s) == [i \in 1..Len(s) |-> LowerChar(s[i])]

(* lighthouse.ID(idOrName): the identifier as an integer, or an error.     *)
ID(idOrName) == ParseInt(idOrName)

NumberStripHash(numberStr) ==
    IF numberStr # <<>> /\ numberStr[1] = "#" THEN Tail(numberStr) ELSE numberStr

(* tickets.Number(numberStr): the ticket number, possibly prefixed with #. *)
Number(numberStr) == ParseInt(NumberStripHash(numberStr))

-----------------------------------------------------------------------------
(* The resource kinds and the record types of each (JSON key names).  The  *)
(* long records of the source are cut to their identifier, their name or   *)
(* title, every field of the create view and a counter and a timestamp of  *)
(* the read-only output.                                                   *)

Kinds == {"bins", "projects", "messages", "milestones", "tickets"}

(* Bin, Project, Message, Milestone, Ticket                                *)
Fields(k) ==
    CASE k = "bins" ->
           {"id", "name", "query", "default", "tickets_count", "updated_at"}
      [] k = "projects" ->
           {"id", "name", "archived", "public", "open_tickets_count", "created_at"}
      [] k = "messages" ->
           {"id", "title", "body", "comments_count", "created_at"}
      [] k = "milestones" ->
           {"id", "title", "goals", "due_on", "tickets_count", "created_at"}
      [] OTHER ->
           {"number", "title", "body", "state", "assigned_user_id",
            "milestone_id", "tag", "version", "created_at"}

IDField(k) == IF k = "tickets" THEN "number" ELSE "id"

NameField(k) == IF k \in {"bins", "projects"} THEN "name" ELSE "title"

(* BinCreate, ProjectCreate, MessageCreate, MilestoneCreate, TicketCreate  *)
CreateView(k) ==
    CASE k = "bins" -> {"default", "name", "query"}
      [] k = "projects" -> {"archived", "name", "public"}
      [] k = "messages" -> {"body", "title"}
      [] k = "milestones" -> {"goals", "title", "due_on"}
      [] OTHER -> {"title", "body", "state", "assigned_user_id", "milestone_id", "tag"}

(* The create-view fields tagged omitempty (TicketCreate only).            *)
CreateOmitEmpty(k) ==
    IF k = "tickets" THEN {"state", "assigned_user_id", "milestone_id"} ELSE {}

(* BinUpdate, ProjectUpdate, MessageUpdate, MilestoneUpdate; TicketUpdate  *)
(* embeds *Ticket, so its fields are all the fields of Ticket.             *)
UpdateView(k) ==
    CASE k = "bins" -> {"default", "name", "query"}
      [] k = "projects" -> {"archived", "name", "public"}
      [] k = "messages" -> {"body", "title"}
      [] k = "milestones" -> {"goals", "title", "due_on"}
      [] OTHER -> Fields("tickets")

(* The update-view fields tagged omitempty (Ticket.State only).            *)
UpdateOmitEmpty(k) == IF k = "tickets" THEN {"state"} ELSE {}

(* binRequest ... ticketRequest: the key of the singular envelope.         *)
SingularKey(k) ==
    CASE k = "bins" -> "ticket_bin"
      [] k = "projects" -> "project"
      [] k = "messages" -> "message"
      [] k = "milestones" -> "milestone"
      [] OTHER -> "ticket"

(* binsResponse ... ticketsResponse: the key of the collection envelope.   *)
PluralKey(k) ==
    CASE k = "bins" -> "ticket_bins"
      [] k = "projects" -> "projects"
      [] k = "messages" -> "messages"
      [] k = "milestones" -> "milestones"
      [] OTHER -> "tickets"

(* The Go type of a field.                                                 *)
TypeOf(f) ==
    CASE f \in {"id", "number", "tickets_count", "open_tickets_count",
                "comments_count", "assigned_user_id", "milestone_id", "version"} -> "int"
      [] f \in {"default", "archived", "public"} -> "bool"
      [] f \in {"name", "title"} -> "chars"
      [] f \in {"updated_at", "created_at", "due_on"} -> "time"
      [] OTHER -> "string"

(* The Go zero value of a field (a nil *time.Time is "nil").               *)
Zero(f) ==
    CASE TypeOf(f) = "int" -> 0
      [] TypeOf(f) = "bool" -> FALSE
      [] TypeOf(f) = "chars" -> <<>>
      [] TypeOf(f) = "time" -> "nil"
      [] OTHER -> ""

(* A non-zero sample value of a field.                                     *)
Sample(f) ==
    CASE TypeOf(f) = "int" -> 5
      [] TypeOf(f) = "bool" -> TRUE
      [] TypeOf(f) = "chars" -> <<"c">>
      [] TypeOf(f) = "time" -> "t1"
      [] OTHER -> "x"

ZeroEnt(k) == [f \in Fields(k) |-> Zero(f)]

(* An entity as a caller may hold it: identifier, name, and the remaining  *)
(* fields either all zero (full = FALSE) or all set (full = TRUE).         *)
Ent(k, id, name, full) ==
    [f \in Fields(k) |->
        IF f = IDField(k) THEN id
        ELSE IF f = NameField(k) THEN name
        ELSE IF full THEN Sample(f) ELSE Zero(f)]

-----------------------------------------------------------------------------
(* JSON.  An object is a function from its keys to values; an envelope is  *)
(* [key, obj]; a collection envelope is [key, items], items a sequence of  *)
(* singular envelopes.                                                     *)

(* json.Encoder.Encode of a view struct: every field of the view, except   *)
(* an omitempty field holding its zero value.                              *)
Marshal(view, omitempty, e) ==
    [f \in {g \in view : ~(g \in omitempty /\ e[g] = Zero(g))} |-> e[f]]

(* json.Decoder.Decode into an existing struct: the keys present in the    *)
(* object overwrite the struct's fields, every other field is kept.        *)
Unmarshal(e, obj) ==
    [f \in DOMAIN e |-> IF f \in DOMAIN obj THEN obj[f] ELSE e[f]]

(* Mutant: the entities come out in the reverse of the array's order.       *)
RECURSIVE FlattenReversed(_)
FlattenReversed(items) ==
    IF items = <<>> THEN <<>>
    ELSE FlattenReversed(Tail(items)) \o <<Head(items).obj>>

(* binsResponse.bins() ... ticketsResponse.tickets(): append each          *)
(* element's entity, in order.                                             *)
RECURSIVE Flatten(_)
Flatten(items) ==
    IF items = <<>> THEN <<>>
    ELSE <<Head(items).obj>> \o Flatten(Tail(items))

-----------------------------------------------------------------------------
(* Errors a call can return.                                               *)

NoErr == [type |-> "none", code |-> 0]
ErrTransport == [type |-> "transport", code |-> 0]
ErrStatus(code) == [type |-> "status", code |-> code]
ErrDecode == [type |-> "decode", code |-> 0]
ErrNoSuch == [type |-> "nosuch", code |-> 0]
ErrInvalidNumber == [type |-> "invalid", code |-> 0]

-----------------------------------------------------------------------------
(* Requests.  A path is the service's base path, an optional member        *)
(* segment (<<>> for the collection itself) and the query parameters       *)
(* (0 and "" when not set).                                                *)

NoObj == [f \in {} |-> 0]

Request(method, member, q, limit, page, hasBody, obj) ==
    [method |-> method, member |-> member, q |-> q, limit |-> limit,
     page |-> page, hasBody |-> hasBody, key |-> SingularKey(kind), obj |-> obj]

NilOpts == [nil |-> TRUE, Query |-> "", Limit |-> 0, Page |-> 0]

Opts(q, limit, page) == [nil |-> FALSE, Query |-> q, Limit |-> limit, Page |-> page]

(* The path List builds: bins, projects and messages take no options;      *)
(* milestones set page when opts.Page > 0; tickets set q, limit and page    *)
(* when non-empty / positive.                                              *)
ListRequest(opts) ==
    CASE kind = "tickets" /\ ~opts.nil ->
           Request("GET", <<>>,
                   IF opts.Query # "" THEN opts.Query ELSE "",
                   IF opts.Limit > 0 THEN opts.Limit ELSE 0,
                   IF opts.Page > 0 THEN opts.Page ELSE 0, FALSE, NoObj)
      [] kind = "milestones" /\ ~opts.nil ->
           Request("GET", <<>>, "", 0,
                   IF opts.Page > 0 THEN opts.Page ELSE 0, FALSE, NoObj)
      [] OTHER -> Request("GET", <<>>, "", 0, 0, FALSE, NoObj)


-----------------------------------------------------------------------------
(* The remote server.  It keeps the collection in `store`, lists it in     *)
(* pages, assigns identifiers, and stores the mutable fields it is sent.   *)

Min(a, b) == IF a < b THEN a ELSE b

ServerStatuses == {200, 201, 404, 500}

(* How the server may misbehave on one request: not at all, the connection *)
(* fails, the body is not valid JSON, it answers 500 and does nothing, or  *)
(* it does its work but reports 201 for 200 and 200 for 201.               *)
Faults == {"ok", "neterr", "malformed", "s500", "swap"}

PageSize(req) ==
    CASE kind = "tickets" ->
           IF req.limit > 0 THEN Min(req.limit, MaxLimit) ELSE DefaultLimit
      [] kind = "milestones" -> srv.perPage
      [] OTHER -> Len(store) + 1

PageSlice(p, n) == SubSeq(store, (p - 1) * n + 1, Min(p * n, Len(store)))

PageOf(req) ==
    PageSlice(IF req.page = 0 \/ srv.ignoresPage THEN 1 ELSE req.page, PageSize(req))

Envelope(e) == [key |-> SingularKey(kind), obj |-> e]

Envelopes(page) == [j \in 1..Len(page) |-> Envelope(page[j])]

First(hit) == IF hit = {} THEN 0 ELSE CHOOSE i \in hit : \A j \in hit : i <= j

StoreIndex(member) ==
    First({i \in 1..Len(store) : Itoa(store[i][IDField(kind)]) = member})

UsedIDs == {store[i][IDField(kind)] : i \in 1..Len(store)}

FreshID == CHOOSE n \in 1..(Len(store) + 1) : n \notin UsedIDs /\ (1..(n - 1)) \subseteq UsedIDs

(* The entity the server creates from a POST body: the mutable fields it   *)
(* was sent, a fresh identifier, its own timestamps.                       *)
ServerNew(obj) ==
    [f \in Fields(kind) |->
        IF f = IDField(kind) THEN FreshID
        ELSE IF f \in CreateView(kind)
             THEN (IF f \in DOMAIN obj THEN obj[f] ELSE Zero(f))
        ELSE IF TypeOf(f) = "time" THEN "t2" ELSE Zero(f)]

(* The entity after a PUT: the mutable fields it was sent replace the old. *)
ServerPut(e, obj) ==
    [f \in Fields(kind) |->
        IF f \in CreateView(kind) /\ f \in DOMAIN obj THEN obj[f] ELSE e[f]]

Remove(seq, i) == SubSeq(seq, 1, i - 1) \o SubSeq(seq, i + 1, Len(seq))

Reply(status, form, obj, items, newStore) ==
    [status |-> status, form |-> form, obj |-> obj, items |-> items, store |-> newStore]

Posted(e) == Reply(201, "one", e, <<>>, Append(store, e))

Put(i, e) == Reply(200, "one", e, <<>>, [store EXCEPT ![i] = e])

(* What a well-behaved server answers to a request for the member at       *)
(* index i of the collection (0: no such member, or the collection path).  *)
ServerReplyAt(req, i) ==
    CASE req.method = "GET" /\ req.member = <<>> ->
           Reply(200, "many", NoObj, Envelopes(PageOf(req)), store)
      [] req.method = "POST" /\ req.member = <<>> -> Posted(ServerNew(req.obj))
      [] req.method = "GET" /\ i > 0 -> Reply(200, "one", store[i], <<>>, store)
      [] req.method = "PUT" /\ i > 0 -> Put(i, ServerPut(store[i], req.obj))
      [] req.method = "DELETE" /\ i > 0 -> Reply(200, "none", NoObj, <<>>, Remove(store, i))
      [] OTHER -> Reply(404, "none", NoObj, <<>>, store)

ServerReply(req) == ServerReplyAt(req, StoreIndex(req.member))

Response(neterr, status, malformed, form, obj, items) ==
    [neterr |-> neterr, status |-> status, malformed |-> malformed, form |-> form,
     key |-> IF form = "many" THEN PluralKey(kind) ELSE SingularKey(kind),
     obj |-> obj, items |-> items]

(* The response that reaches the client when the server's reply is r.      *)
Faulty(r, fault) ==
    CASE fault = "neterr" -> Response(TRUE, 0, FALSE, "none", NoObj, <<>>)
      [] fault = "s500" -> Response(FALSE, 500, FALSE, "none", NoObj, <<>>)
      [] fault = "swap" ->
           Response(FALSE, IF r.status = 200 THEN 201 ELSE IF r.status = 201 THEN 200 ELSE r.status,
                    FALSE, r.form, r.obj, r.items)
      [] fault = "malformed" -> Response(FALSE, r.status, TRUE, "none", NoObj, <<>>)
      [] OTHER -> Response(FALSE, r.status, FALSE, r.form, r.obj, r.items)

Carried(r, fault) ==
    [resp |-> Faulty(r, fault),
     store |-> IF fault \in {"neterr", "s500"} THEN store ELSE r.store]

(* lighthouse.Service.RoundTrip: one attempt; a network error or the       *)
(* server's response (.resp), and the server's collection afterwards       *)
(* (.store).                                                               *)
RoundTrip(req, fault) == Carried(ServerReply(req), fault)

(* Mutant: the error does not say which status the server answered.        *)
CheckResponseDropsCode(resp, expected) ==
    IF resp.status = expected THEN NoErr ELSE ErrStatus(0)

(* lighthouse.CheckResponse(resp, expected): nil when the status is the    *)
(* expected one, otherwise an error carrying the response's status code.   *)
CheckResponse(resp, expected) ==
    IF resp.status = expected THEN NoErr ELSE ErrStatus(resp.status)

-----------------------------------------------------------------------------
(* The client operations.  Each returns what the Go function returns (err, *)
(* and the value when there is one), the exchange it made (x: the request, *)
(* the response, and the error the operation drew from it) and the         *)
(* server's collection afterwards.                                         *)

Exchange(req, resp, expected, err) ==
    [req |-> req, resp |-> resp, expected |-> expected, err |-> err]

(* if err != nil { return err } after RoundTrip, after CheckResponse and   *)
(* (when the operation decodes the body) after decode.                     *)
FirstError(resp, checked, decodes) ==
    IF resp.neterr THEN ErrTransport
    ELSE IF checked # NoErr THEN checked
    ELSE IF decodes /\ resp.malformed THEN ErrDecode
    ELSE NoErr

Attempted(req, rt, expected, decodes) ==
    [x |-> Exchange(req, rt.resp, expected,
                    FirstError(rt.resp, CheckResponse(rt.resp, expected), decodes)),
     store |-> rt.store]

(* The shared middle of every operation: RoundTrip, CheckResponse, decode. *)
Attempt(req, expected, decodes, fault) ==
    Attempted(req, RoundTrip(req, fault), expected, decodes)

(* xsResponse.decode then .bins() / .projects() / ...: the collection      *)
(* envelope's array, unwrapped element by element.                         *)
DecodeList(resp) ==
    IF resp.form = "many" /\ resp.key = PluralKey(kind) THEN Flatten(resp.items) ELSE <<>>

ListResult(a) ==
    [x |-> a.x, store |-> a.store, err |-> a.x.err,
     list |-> IF a.x.err = NoErr THEN DecodeList(a.x.resp) ELSE <<>>]

(* Service.List                                                            *)
List(opts, fault) == ListResult(Attempt(ListRequest(opts), StatusOK, TRUE, fault))

Decodable(a) == a.x.err = NoErr /\ a.x.resp.form = "one" /\ a.x.resp.key = SingularKey(kind)

GetResult(a) ==
    [x |-> a.x, store |-> a.store, err |-> a.x.err, isNil |-> ~Decodable(a),
     ent |-> IF Decodable(a) THEN Unmarshal(ZeroEnt(kind), a.x.resp.obj) ELSE ZeroEnt(kind)]

(* Service.GetByID / get / GetByNumber                                     *)
GetByID(id, fault) ==
    GetResult(Attempt(Request("GET", Itoa(id), "", 0, 0, FALSE, NoObj), StatusOK, TRUE, fault))

(* Mutant: the scan compares the names as they are, letter case included.  *)
ScanCaseSensitive(list, name) ==
    First({i \in 1..Len(list) : list[i][NameField(kind)] = name})

(* The scan of GetByName / GetByTitle: the index of the first listed       *)
(* entity whose name equals the given one ignoring case, or 0.             *)
RECURSIVE ScanFrom(_, _, _)
ScanFrom(list, lower, i) ==
    IF i > Len(list) THEN 0
    ELSE IF ToLower(list[i][NameField(kind)]) = lower THEN i
    ELSE ScanFrom(list, lower, i + 1)

Scan(list, name) == ScanFrom(list, ToLower(name), 1)

(* Mutant: the name (or title) is left out of the body.                    *)
CreateBodyDropsName(e) ==
    Marshal(CreateView(kind) \ {NameField(kind)}, CreateOmitEmpty(kind), e)

(* The request body of Create: the create view of the entity.              *)
CreateBody(e) == Marshal(CreateView(kind), CreateOmitEmpty(kind), e)

(* Mutant: the response is decoded into the caller's entity before its     *)
(* status is looked at.                                                    *)
CreateResultDecodesFirst(e, a) ==
    [x |-> a.x, store |-> a.store, err |-> a.x.err, isNil |-> a.x.err # NoErr,
     ent |-> IF ~a.x.resp.neterr /\ a.x.resp.form = "one"
                /\ a.x.resp.key = SingularKey(kind)
             THEN Unmarshal(e, a.x.resp.obj) ELSE e]

(* Create's response handling: nil and the error, or the caller's entity   *)
(* with the response decoded into it.                                      *)
CreateResult(e, a) ==
    [x |-> a.x, store |-> a.store, err |-> a.x.err, isNil |-> a.x.err # NoErr,
     ent |-> IF Decodable(a) THEN Unmarshal(e, a.x.resp.obj) ELSE e]

(* Mutant: 200 OK is taken for success.                                    *)
CreateAcceptsOK(e, fault) ==
    CreateResult(e, Attempt(Request("POST", <<>>, "", 0, 0, TRUE, CreateBody(e)),
                            StatusOK, TRUE, fault))

(* Service.Create                                                          *)
Create(e, fault) ==
    CreateResult(e, Attempt(Request("POST", <<>>, "", 0, 0, TRUE, CreateBody(e)),
                            StatusCreated, TRUE, fault))

(* Mutant: the whole record is sent.                                       *)
UpdateBodyWhole(e) == e

(* The request body of Update: the update view of the entity.              *)
UpdateBody(e) == Marshal(UpdateView(kind), UpdateOmitEmpty(kind), e)

ErrResult(a) == [x |-> a.x, store |-> a.store, err |-> a.x.err]

(* Service.Update                                                          *)
Update(e, fault) ==
    ErrResult(Attempt(Request("PUT", Itoa(e[IDField(kind)]), "", 0, 0, TRUE, UpdateBody(e)),
                      StatusOK, FALSE, fault))

(* Service.DeleteByID / DeleteByNumber                                     *)
DeleteByID(id, fault) ==
    ErrResult(Attempt(Request("DELETE", Itoa(id), "", 0, 0, FALSE, NoObj),
                      StatusOK, FALSE, fault))

(* Get and Delete take the identifier as an integer when it parses:        *)
(* lighthouse.ID for bins, projects, messages and milestones, Number for   *)
(* tickets.                                                                *)
ParseArg(arg) == IF kind = "tickets" THEN Number(arg) ELSE ID(arg)

Found(err, list, i) ==
    IF err # NoErr THEN [err |-> err, isNil |-> TRUE, ent |-> ZeroEnt(kind)]
    ELSE IF i = 0 THEN [err |-> ErrNoSuch, isNil |-> TRUE, ent |-> ZeroEnt(kind)]
    ELSE [err |-> NoErr, isNil |-> FALSE, ent |-> list[i]]

(* What GetByName / GetByTitle returns once the listing has returned.      *)
ByName(err, list, name) == Found(err, list, Scan(list, name))

-----------------------------------------------------------------------------
(* Inputs.                                                                 *)

NameAb == <<"A", "b">>
NameaB == <<"a", "B">>

(* Entities a caller passes to Create and Update.                          *)
Drafts == {Ent(kind, 0, NameAb, TRUE), Ent(kind, 1, NameaB, FALSE)}

(* Identifier strings a caller passes to Get and Delete.                   *)
IdArgs == {<<"1">>, <<"0", "2">>, <<"#", "1">>, <<"-", "1">>, <<"a", "b">>, <<"z">>}

ListOptions ==
    IF kind = "tickets"
    THEN {NilOpts, Opts("", 0, 0), Opts("q", 1, 0), Opts("q", 1, 2), Opts("", MaxLimit, 0)}
    ELSE IF kind = "milestones"
    THEN {NilOpts} \cup {Opts("", 0, p) : p \in {0, 2}}
    ELSE {NilOpts}

ServerConfigs(k) ==
    IF k = "milestones"
    THEN {[perPage |-> n, ignoresPage |-> b] : n \in 1..MaxPerPage, b \in BOOLEAN}
    ELSE IF k = "tickets"
    THEN {[perPage |-> 0, ignoresPage |-> b] : b \in BOOLEAN}
    ELSE {[perPage |-> 0, ignoresPage |-> FALSE]}

-----------------------------------------------------------------------------
(* State.                                                                  *)

(* The export command before it is run.                                    *)
ExportIdle ==
    [pc |-> "none", attachments |-> FALSE, projects |-> 0, p |-> 0, page |-> 0,
     pending |-> <<>>, left |-> 0, fetches |-> 0, failures |-> <<>>,
     names |-> {}, last |-> [name |-> "", p |-> 0, after |-> 0]]

(* No command-line tool is running.                                        *)
(* The migration before it is run: position, iterations left in each      *)
(* loop, the current version, the files uploaded for it (pfs), the label   *)
(* and member calls that failed, and the calls made: on users, groups and  *)
(* projects (glog), on the current project (plog), on the current issue    *)
(* (ilog), for the current version (vlog).                                 *)
MigrateIdle ==
    [pc |-> "none",
     left |-> [users |-> 0, groups |-> 0, gmembers |-> 0, projects |-> 0, labels |-> 0,
               members |-> 0, milestones |-> 0, tickets |-> 0, watchers |-> 0,
               versions |-> 0, uploads |-> 0],
     ver |-> [blank |-> FALSE, current |-> FALSE], pfs |-> 0,
     failed |-> {}, glog |-> <<>>, plog |-> <<>>, ilog |-> <<>>, vlog |-> <<>>]

(* -delete mode before it is run: position, the token's owner, the rest   *)
(* of the listing being deleted, the listings got, the calls made.        *)
DeleteIdle == [pc |-> "none", me |-> "", todo |-> <<>>, listed |-> {}, log |-> <<>>]

(* The migration tool before it starts: position of the main flow, the    *)
(* named result tempDir of readLHExport and whether its return statement  *)
(* has written it, whether the directory exists, err, the channel         *)
(* interrupts are sent to (0: none, the default disposition), each        *)
(* listener's position, channel buffer and whether it has read tempDir,   *)
(* the interrupts delivered, how the process ended.                       *)
SignalIdle ==
    [pc |-> "none", tempDir |-> "", written |-> FALSE, dir |-> FALSE, err |-> FALSE,
     handler |-> 0, l |-> <<"none", "none">>, c |-> <<FALSE, FALSE>>,
     read |-> <<FALSE, FALSE>>, ints |-> 0, exited |-> ""]

FilenameIdle == [pc |-> "none", name |-> <<>>, out |-> <<>>]

LoadIdle ==
    [pc |-> "none", n |-> 0, users |-> <<>>, projects |-> <<>>,
     cur |-> [ID |-> 0, milestones |-> <<>>, tickets |-> <<>>], reordered |-> {},
     seen |-> [users |-> <<>>, projects |-> <<>>, milestones |-> <<>>, tickets |-> <<>>],
     p |-> 0]

ConvertIdle ==
    [pc |-> "none", usersMap |-> <<>>, milestonesMap |-> <<>>,
     call |-> [op |-> "none", src |-> [AssignedUserID |-> 0, MilestoneID |-> 0],
               AssigneeIDs |-> <<>>, MilestoneID |-> [nil |-> TRUE, v |-> 0]]]

ArchiveIdle == [pc |-> "none", kind |-> "", written |-> {}, files |-> {}, loaded |-> {}]

LabelsIdle ==
    [pc |-> "none", stateKey |-> <<>>, text |-> <<>>, opts |-> <<>>, of |-> "",
     state |-> <<>>, label |-> <<>>]

ReplayIdle ==
    [pc |-> "none", ticket |-> [CreatedAt |-> 0], versions |-> <<>>,
     attachments |-> <<>>, i |-> 0, pfs |-> 0, notes |-> <<>>]

BodyIdle ==
    [pc |-> "none", op |-> "", status |-> 0, valid |-> FALSE, open |-> FALSE,
     closes |-> 0, deferred |-> FALSE, err |-> "", handed |-> FALSE]

ExportOff == xp = ExportIdle

MigrateOff == mg = MigrateIdle /\ sh = MigrateIdle

DeleteOff == dl = DeleteIdle

SignalOff == sg = SignalIdle

FilenameOff == fn = FilenameIdle

LoadOff == ld = LoadIdle

ConvertOff == cv = ConvertIdle

ArchiveOff == ar = ArchiveIdle

LabelsOff == lb = LabelsIdle

ReplayOff == vr = ReplayIdle

BodyOff == bd = BodyIdle

ToolsIdle ==
    /\ ExportOff
    /\ MigrateOff
    /\ DeleteOff
    /\ SignalOff
    /\ FilenameOff
    /\ LoadOff
    /\ ConvertOff
    /\ ArchiveOff
    /\ LabelsOff
    /\ ReplayOff
    /\ BodyOff

NoCall == [op |-> "none", arg |-> <<>>, opts |-> NilOpts, draft |-> ZeroEnt(kind)]

NoRet == [err |-> NoErr, isNil |-> TRUE, ent |-> ZeroEnt(kind), list |-> <<>>]

NoPrev == [op |-> "none", err |-> NoErr, draft |-> ZeroEnt(kind), ent |-> ZeroEnt(kind)]

Init ==
    /\ kind \in Kinds
    /\ srv \in ServerConfigs(kind)
    /\ store = <<>>
    /\ pc = "idle"
    /\ call = NoCall
    /\ realOpts = NilOpts
    /\ ts = <<>>
    /\ target = ZeroEnt(kind)
    /\ ent = ZeroEnt(kind)
    /\ log = <<>>
    /\ ret = NoRet
    /\ prev = NoPrev
    /\ ToolsIdle

Returned(err, isNil, e, list) == [err |-> err, isNil |-> isNil, ent |-> e, list |-> list]

OpCall(op, arg, opts, draft) == [op |-> op, arg |-> arg, opts |-> opts, draft |-> draft]

(* A call that finishes in this step, having made the exchanges xs.        *)
Finish(c, xs, newStore, r) ==
    /\ pc' = "done"
    /\ call' = c
    /\ log' = log \o xs
    /\ store' = newStore
    /\ ret' = r
    /\ UNCHANGED <<kind, srv, prev, toolVars>>

(* A call that goes on after the exchange x.                               *)
Continue(c, x, newStore) ==
    /\ call' = c
    /\ log' = Append(log, x)
    /\ store' = newStore
    /\ UNCHANGED <<kind, srv, ret, prev, toolVars>>

ListDone(opts, r) ==
    /\ Finish(OpCall("List", <<>>, opts, ZeroEnt(kind)), <<r.x>>, r.store,
              Returned(r.err, r.err # NoErr, ZeroEnt(kind), r.list))
    /\ UNCHANGED <<realOpts, ts, target, ent>>

(* Service.List                                                            *)
CallList ==
    /\ pc = "idle"
    /\ \E opts \in ListOptions, fault \in Faults : ListDone(opts, List(opts, fault))

(* Mutant: the loop starts at the caller's page when there is one.         *)
BeginListAllAtPage(opts) ==
    /\ realOpts' = Opts(opts.Query, opts.Limit, IF opts.Page > 0 THEN opts.Page ELSE 1)
    /\ ts' = <<>>
    /\ pc' = "listall"

(* The start of ListAll: realOpts is the caller's options (or the zero     *)
(* value when opts is nil), the accumulator is empty, Page starts at 1.    *)
BeginListAll(opts) ==
    /\ realOpts' = Opts(opts.Query, opts.Limit, 1)
    /\ ts' = <<>>
    /\ pc' = "listall"

(* Service.ListAll, up to its loop                                         *)
CallListAll ==
    /\ pc = "idle"
    /\ kind \in {"milestones", "tickets"}
    /\ \E opts \in ListOptions :
         /\ BeginListAll(opts)
         /\ call' = OpCall("ListAll", <<>>, opts, ZeroEnt(kind))
    /\ UNCHANGED <<kind, srv, store, target, ent, log, ret, prev, toolVars>>

(* Mutant: the new page is put in front of the accumulator.                *)
IteratedPrepends(r) ==
    IF r.err # NoErr
    THEN [x |-> r.x, store |-> r.store, done |-> TRUE, err |-> r.err, list |-> <<>>]
    ELSE IF Len(r.list) = 0
    THEN [x |-> r.x, store |-> r.store, done |-> TRUE, err |-> NoErr, list |-> ts]
    ELSE [x |-> r.x, store |-> r.store, done |-> FALSE, err |-> NoErr, list |-> r.list \o ts]

(* Mutant: a page of at most one entity is taken to be the last one.       *)
IteratedUntilShort(r) ==
    IF r.err # NoErr
    THEN [x |-> r.x, store |-> r.store, done |-> TRUE, err |-> r.err, list |-> <<>>]
    ELSE IF Len(r.list) <= 1
    THEN [x |-> r.x, store |-> r.store, done |-> TRUE, err |-> NoErr, list |-> ts \o r.list]
    ELSE [x |-> r.x, store |-> r.store, done |-> FALSE, err |-> NoErr, list |-> ts \o r.list]

(* Mutant: a failed page is skipped and the loop goes on to the next.      *)
IteratedSkipsFailure(r) ==
    IF r.err # NoErr
    THEN [x |-> r.x, store |-> r.store, done |-> FALSE, err |-> NoErr, list |-> ts]
    ELSE IF Len(r.list) = 0
    THEN [x |-> r.x, store |-> r.store, done |-> TRUE, err |-> NoErr, list |-> ts]
    ELSE [x |-> r.x, store |-> r.store, done |-> FALSE, err |-> NoErr, list |-> ts \o r.list]

(* One turn of ListAll's loop on the result r of List(&realOpts): an error *)
(* returns nil and the error; an empty page breaks and returns the         *)
(* accumulator; any other page is appended.                                *)
Iterated(r) ==
    IF r.err # NoErr
    THEN [x |-> r.x, store |-> r.store, done |-> TRUE, err |-> r.err, list |-> <<>>]
    ELSE IF Len(r.list) = 0
    THEN [x |-> r.x, store |-> r.store, done |-> TRUE, err |-> NoErr, list |-> ts]
    ELSE [x |-> r.x, store |-> r.store, done |-> FALSE, err |-> NoErr, list |-> ts \o r.list]

ListAllIter(fault) == Iterated(List(realOpts, fault))

(* What the caller of ListAll does with its result: ListAll's own caller   *)
(* gets it; milestones' GetByTitle scans it (b); milestones' DeleteByTitle *)
(* scans it and goes on to DeleteByID.                                     *)
ListAllReturns(it, b) ==
    CASE call.op = "ListAll" ->
           /\ Finish(call, <<it.x>>, it.store,
                     Returned(it.err, it.err # NoErr, ZeroEnt(kind), it.list))
           /\ UNCHANGED <<realOpts, ts, target, ent>>
      [] call.op = "Delete" /\ b.err = NoErr ->
           /\ Continue(call, it.x, it.store)
           /\ pc' = "delete"
           /\ target' = b.ent
           /\ UNCHANGED <<realOpts, ts, ent>>
      [] OTHER ->
           /\ Finish(call, <<it.x>>, it.store, Returned(b.err, b.isNil, b.ent, <<>>))
           /\ UNCHANGED <<realOpts, ts, target, ent>>

ListAllTurn(it) ==
    IF it.done
    THEN ListAllReturns(it, ByName(it.err, it.list, call.arg))
    ELSE /\ Continue(call, it.x, it.store)
         /\ ts' = it.list
         /\ realOpts' = [realOpts EXCEPT !.Page = realOpts.Page + 1]
         /\ UNCHANGED <<pc, target, ent>>

(* Service.ListAll's loop                                                  *)
ListAllStep ==
    /\ pc = "listall"
    /\ realOpts.Page <= MaxPage
    /\ \E fault \in Faults : ListAllTurn(ListAllIter(fault))

GotByID(c, g) ==
    /\ Finish(c, <<g.x>>, g.store, Returned(g.err, g.isNil, g.ent, <<>>))
    /\ UNCHANGED <<realOpts, ts, target, ent>>

GotByName(c, l, b) ==
    /\ Finish(c, <<l.x>>, l.store, Returned(b.err, b.isNil, b.ent, <<>>))
    /\ UNCHANGED <<realOpts, ts, target, ent>>

InvalidNumber(c) ==
    /\ Finish(c, <<>>, store, Returned(ErrInvalidNumber, TRUE, ZeroEnt(kind), <<>>))
    /\ UNCHANGED <<realOpts, ts, target, ent>>

(* milestones' GetByTitle: ListAll(&ListOptions{})                         *)
ByTitle(c) ==
    /\ BeginListAll(Opts("", 0, 0))
    /\ call' = c
    /\ UNCHANGED <<kind, srv, store, target, ent, log, ret, prev, toolVars>>

GetByName(c, l) == GotByName(c, l, ByName(l.err, l.list, c.arg))

(* Service.Get on the parsed identifier p: by ID when it parsed; tickets   *)
(* fail otherwise; the others look the name up in the listing.             *)
Get(c, p, fault) ==
    CASE p.ok -> GotByID(c, GetByID(p.val, fault))
      [] ~p.ok /\ kind = "tickets" -> InvalidNumber(c)
      [] ~p.ok /\ kind = "milestones" -> ByTitle(c)
      [] OTHER -> GetByName(c, List(NilOpts, fault))

(* Service.Get, with GetByID and GetByName / GetByTitle.                   *)
CallGet ==
    /\ pc = "idle"
    /\ \E arg \in IdArgs, fault \in Faults :
         Get(OpCall("Get", arg, NilOpts, ZeroEnt(kind)), ParseArg(arg), fault)

Deleted(c, d) ==
    /\ Finish(c, <<d.x>>, d.store, Returned(d.err, TRUE, ZeroEnt(kind), <<>>))
    /\ UNCHANGED <<realOpts, ts, target, ent>>

(* Mutant: DeleteByID is called with the identifier of a zero entity.      *)
ResolvedZero(c, l, b) ==
    IF b.err # NoErr
    THEN /\ Finish(c, <<l.x>>, l.store, Returned(b.err, TRUE, ZeroEnt(kind), <<>>))
         /\ UNCHANGED <<realOpts, ts, target, ent>>
    ELSE /\ Continue(c, l.x, l.store)
         /\ pc' = "delete"
         /\ target' = ZeroEnt(kind)
         /\ UNCHANGED <<realOpts, ts, ent>>

Resolved(c, l, b) ==
    IF b.err # NoErr
    THEN /\ Finish(c, <<l.x>>, l.store, Returned(b.err, TRUE, ZeroEnt(kind), <<>>))
         /\ UNCHANGED <<realOpts, ts, target, ent>>
    ELSE /\ Continue(c, l.x, l.store)
         /\ pc' = "delete"
         /\ target' = b.ent
         /\ UNCHANGED <<realOpts, ts, ent>>

(* DeleteByName: GetByName, then (when it found the entity) DeleteByID.    *)
DeleteByName(c, l) == Resolved(c, l, ByName(l.err, l.list, c.arg))

(* Service.Delete on the parsed identifier p.                              *)
Delete(c, p, fault) ==
    CASE p.ok -> Deleted(c, DeleteByID(p.val, fault))
      [] ~p.ok /\ kind = "tickets" -> InvalidNumber(c)
      [] ~p.ok /\ kind = "milestones" -> ByTitle(c)
      [] OTHER -> DeleteByName(c, List(NilOpts, fault))

(* Service.Delete, with DeleteByID and the lookup of DeleteByName /        *)
(* DeleteByTitle.                                                          *)
CallDelete ==
    /\ pc = "idle"
    /\ \E arg \in IdArgs, fault \in Faults :
         Delete(OpCall("Delete", arg, NilOpts, ZeroEnt(kind)), ParseArg(arg), fault)

(* The DeleteByID that ends DeleteByName / DeleteByTitle.                  *)
DeleteStep ==
    /\ pc = "delete"
    /\ \E fault \in Faults : Deleted(call, DeleteByID(target[IDField(kind)], fault))

Created(e, r) ==
    /\ Finish(OpCall("Create", <<>>, NilOpts, e), <<r.x>>, r.store,
              Returned(r.err, r.isNil, IF r.isNil THEN ZeroEnt(kind) ELSE r.ent, <<>>))
    /\ ent' = r.ent
    /\ UNCHANGED <<realOpts, ts, target>>

(* Service.Create                                                          *)
CallCreate ==
    /\ pc = "idle"
    /\ Len(store) < MaxStore
    /\ \E e \in Drafts, fault \in Faults : Created(e, Create(e, fault))

(* Mutant: the response of the PUT is decoded into the caller's entity.    *)
UpdatedDecodes(e, r) ==
    /\ Finish(OpCall("Update", <<>>, NilOpts, e), <<r.x>>, r.store,
              Returned(r.err, TRUE, ZeroEnt(kind), <<>>))
    /\ ent' = IF r.err = NoErr /\ DOMAIN r.x.resp.obj # {}
              THEN Unmarshal(e, r.x.resp.obj) ELSE e
    /\ UNCHANGED <<realOpts, ts, target>>

Updated(e, r) ==
    /\ Finish(OpCall("Update", <<>>, NilOpts, e), <<r.x>>, r.store,
              Returned(r.err, TRUE, ZeroEnt(kind), <<>>))
    /\ ent' = e
    /\ UNCHANGED <<realOpts, ts, target>>

(* Service.Update                                                          *)
CallUpdate ==
    /\ pc = "idle"
    /\ \E e \in Drafts, fault \in Faults : Updated(e, Update(e, fault))

(* The call has returned; the caller may make the next one.  A successful  *)
(* Create is remembered, with what was submitted and what came back.       *)
Return ==
    /\ pc = "done"
    /\ pc' = "idle"
    /\ prev' = IF call.op = "Create" /\ ret.err = NoErr
               THEN [op |-> "Create", err |-> NoErr, draft |-> call.draft, ent |-> ret.ent]
               ELSE NoPrev
    /\ call' = NoCall
    /\ realOpts' = NilOpts
    /\ ts' = <<>>
    /\ target' = ZeroEnt(kind)
    /\ ent' = ZeroEnt(kind)
    /\ log' = <<>>
    /\ ret' = NoRet
    /\ UNCHANGED <<kind, srv, store, toolVars>>

Next ==
    \/ CallList
    \/ CallListAll
    \/ ListAllStep
    \/ CallGet
    \/ CallDelete
    \/ DeleteStep
    \/ CallCreate
    \/ CallUpdate
    \/ Return

Spec == Init /\ [][Next]_vars

-----------------------------------------------------------------------------
(* The paging services alone (milestones and tickets, List and ListAll)    *)
(* against a server that already holds a collection: a few entities, or    *)
(* the 237 tickets of the paging example.                                  *)

Stored(i) == Ent(kind, i, IF i % 2 = 1 THEN NameAb ELSE NameaB, i % 2 = 1)

PagingStores ==
    {[i \in 1..n |-> Stored(i)] : n \in 0..MaxStore}
        \cup (IF kind = "tickets" THEN {[i \in 1..237 |-> Stored(i)]} ELSE {})

InitPaging ==
    /\ kind \in {"milestones", "tickets"}
    /\ srv \in ServerConfigs(kind)
    /\ store \in PagingStores
    /\ pc = "idle"
    /\ call = NoCall
    /\ realOpts = NilOpts
    /\ ts = <<>>
    /\ target = ZeroEnt(kind)
    /\ ent = ZeroEnt(kind)
    /\ log = <<>>
    /\ ret = NoRet
    /\ prev = NoPrev
    /\ ToolsIdle

NextPaging ==
    \/ CallList
    \/ CallListAll
    \/ ListAllStep
    \/ Return

SpecPaging == InitPaging /\ [][NextPaging]_vars

-----------------------------------------------------------------------------
(* Properties.                                                             *)

(* The entities a collection response carries, read off the envelope.      *)
Carries(x) == [j \in 1..Len(x.resp.items) |-> x.resp.items[j].obj]

RECURSIVE Concatenation(_)
Concatenation(xs) ==
    IF xs = <<>> THEN <<>> ELSE Carries(Head(xs)) \o Concatenation(Tail(xs))

ListAllReturned == pc = "done" /\ call.op = "ListAll"

(* The i-th request of ListAll asks for page i and carries the caller's    *)
(* other options.                                                          *)
AsksPage(x, i) ==
    /\ x.req.method = "GET" /\ x.req.member = <<>>
    /\ x.req.page = i
    /\ x.req.q = (IF kind = "tickets" THEN call.opts.Query ELSE "")
    /\ x.req.limit = (IF kind = "tickets" THEN call.opts.Limit ELSE 0)

IsExample == kind = "tickets" /\ Len(store) = 237 /\ call.opts.Limit = 100 /\ ~srv.ignoresPage

(* C1: a ListAll that returns without error has asked for pages 1, 2, 3,   *)
(* ... in order; every page but the last was non-empty, the last is empty; *)
(* the result is the concatenation of the pages before it, in page order   *)
(* and within-page order.  For 237 tickets listed 100 per page that is 4   *)
(* List calls (100, 100, 37 and 0 items) and 237 items, the collection.    *)
C1_ListAllConcatenates ==
    (ListAllReturned /\ ret.err = NoErr) =>
        /\ Len(log) >= 1
        /\ \A i \in 1..Len(log) : AsksPage(log[i], i)
        /\ \A i \in 1..(Len(log) - 1) : Carries(log[i]) # <<>>
        /\ Carries(log[Len(log)]) = <<>>
        /\ ~ret.isNil
        /\ ret.list = Concatenation(SubSeq(log, 1, Len(log) - 1))
        /\ IsExample =>
             /\ Len(log) = 4
             /\ <<Len(Carries(log[1])), Len(Carries(log[2])), Len(Carries(log[3]))>>
                    = <<100, 100, 37>>
             /\ Len(ret.list) = 237
             /\ ret.list = store

C1_Witness ==
    /\ ListAllReturned /\ ret.err = NoErr
    /\ IsExample
    /\ Len(log) = 4
    /\ Len(ret.list) = 237

Failed(x) == x.err # NoErr

EmptyPage(x) == x.err = NoErr /\ Carries(x) = <<>>

(* C2: ListAll returns exactly at the first List call that yields an empty *)
(* page or an error.  A ListAll that has returned made k >= 1 calls, the   *)
(* k-th of which gave an empty page or failed, and none before it did; a   *)
(* ListAll that has not returned has seen only non-empty pages and is      *)
(* about to ask for the next page: it returns only on an empty page or an  *)
(* error, so against a server that never sends one it never returns.       *)
C2_ListAllTermination ==
    /\ ListAllReturned =>
         /\ Len(log) >= 1
         /\ Failed(log[Len(log)]) \/ EmptyPage(log[Len(log)])
         /\ \A i \in 1..(Len(log) - 1) : ~Failed(log[i]) /\ ~EmptyPage(log[i])
    /\ (pc = "listall" /\ call.op = "ListAll") =>
         /\ \A i \in 1..Len(log) : ~Failed(log[i]) /\ ~EmptyPage(log[i])
         /\ realOpts.Page = Len(log) + 1

C2_Witness ==
    /\ ListAllReturned /\ ret.err = NoErr
    /\ Len(log) = 3
    /\ EmptyPage(log[3])

-----------------------------------------------------------------------------
(* Get and Delete by identifier or name.                                   *)

Listing(x) == x.req.method = "GET" /\ x.req.member = <<>>

ByPath(x, method, id) == x.req.method = method /\ x.req.member = Itoa(id)

(* The first entity of a list whose name (or title) equals the given one   *)
(* ignoring letter case, as an index, or 0.                                *)
FirstMatch(list, name) ==
    First({i \in 1..Len(list) : ToLower(list[i][NameField(kind)]) = ToLower(name)})

GetReturned == pc = "done" /\ call.op = "Get"

(* Get that fetched by the ID path: one request, no listing.               *)
FetchedByID(id) ==
    /\ Len(log) = 1
    /\ ByPath(log[1], "GET", id)
    /\ ret.err = log[1].err
    /\ ret.err = NoErr => ~ret.isNil /\ ret.ent = log[1].resp.obj

LookedUp(listed, m) ==
    IF m = 0 THEN ret.err = ErrNoSuch /\ ret.isNil
    ELSE ret.err = NoErr /\ ~ret.isNil /\ ret.ent = listed[m]

(* Get that listed the collection and scanned it for the name.             *)
FetchedByName(name) ==
    /\ Len(log) >= 1
    /\ \A i \in 1..Len(log) : Listing(log[i])
    /\ kind # "milestones" => Len(log) = 1
    /\ (\A i \in 1..Len(log) : ~Failed(log[i])) =>
         LookedUp(Concatenation(log), FirstMatch(Concatenation(log), name))

(* C3 as stated, for every service: an identifier that parses as an        *)
(* integer is fetched by its ID path without listing; any other identifier *)
(* is looked up by name in the listing.                                    *)
C3_GetAsClaimed ==
    GetReturned =>
        IF ID(call.arg).ok THEN FetchedByID(ID(call.arg).val)
        ELSE FetchedByName(call.arg)

(* C3: Get of bins, projects, messages and milestones fetches by the ID    *)
(* path, without listing, when the identifier parses as an integer, and    *)
(* otherwise lists the collection (milestones: all its pages) and returns  *)
(* the first entity whose name or title equals the identifier ignoring     *)
(* case, or a not-found error.  Get of tickets never lists: it strips one  *)
(* leading "#", fetches by number when the rest parses as an integer, and  *)
(* otherwise returns an invalid-ticket-number error without any request.   *)
C3_GetByIDOrName ==
    GetReturned =>
        CASE kind # "tickets" /\ ID(call.arg).ok -> FetchedByID(ID(call.arg).val)
          [] kind # "tickets" /\ ~ID(call.arg).ok -> FetchedByName(call.arg)
          [] kind = "tickets" /\ Number(call.arg).ok -> FetchedByID(Number(call.arg).val)
          [] OTHER -> log = <<>> /\ ret.err = ErrInvalidNumber /\ ret.isNil

C3_Witness ==
    /\ GetReturned
    /\ kind # "tickets"
    /\ call.arg = <<"a", "b">>
    /\ ret.err = NoErr
    /\ Len(Concatenation(log)) = 2
    /\ Concatenation(log)[1][NameField(kind)] # call.arg
    /\ ToLower(Concatenation(log)[2][NameField(kind)]) = call.arg
    /\ ret.ent = Concatenation(log)[1]

DeleteByNameCalled == call.op = "Delete" /\ kind # "tickets" /\ ~ID(call.arg).ok

IsDelete(x) == x.req.method = "DELETE"

(* The DELETE at position i of the log comes after successful listings     *)
(* only, and targets the ID of the first listed entity matching the name.  *)
DeletesMatch(i, listed, m) ==
    /\ i = Len(log) /\ i > 1
    /\ \A j \in 1..(i - 1) : Listing(log[j]) /\ ~Failed(log[j])
    /\ m > 0
    /\ log[i].req.member = Itoa(listed[m][IDField(kind)])
    /\ (pc = "done" /\ ret.err = NoErr) => listed[m][IDField(kind)] \notin UsedIDs

(* The outcome of a by-name Delete whose listings (ls) all succeeded.      *)
DeleteOutcome(ls, m) ==
    IF m = 0
    THEN ret.err = ErrNoSuch /\ Len(ls) = Len(log)
    ELSE Len(log) = Len(ls) + 1 /\ IsDelete(log[Len(log)]) /\ ret.err = log[Len(log)].err

(* C4: a Delete by name lists first and only afterwards issues a DELETE,   *)
(* whose target is the ID of the first listed entity whose name equals the *)
(* given one ignoring case; when the DELETE succeeds the entity is gone    *)
(* from the server, also when the name differs from the entity's in letter *)
(* case; when no listed entity matches, no DELETE is issued and the error  *)
(* is the not-found one.                                                   *)
C4_DeleteByName ==
    DeleteByNameCalled =>
        /\ \A i \in 1..Len(log) :
             IsDelete(log[i]) =>
                 DeletesMatch(i, Concatenation(SubSeq(log, 1, i - 1)),
                              FirstMatch(Concatenation(SubSeq(log, 1, i - 1)), call.arg))
        /\ Len(log) >= 1 => Listing(log[1])
        /\ (pc = "done" /\ \A i \in 1..Len(log) : Listing(log[i]) => ~Failed(log[i])) =>
             DeleteOutcome(SelectSeq(log, Listing),
                           FirstMatch(Concatenation(SelectSeq(log, Listing)), call.arg))

C4_Witness ==
    /\ DeleteByNameCalled /\ pc = "done"
    /\ call.arg = <<"a", "b">>
    /\ Len(log) = 2
    /\ Carries(log[1])[1][NameField(kind)] = NameAb
    /\ IsDelete(log[2])
    /\ ret.err = NoErr
    /\ store = <<>>

-----------------------------------------------------------------------------
(* Create and Update.                                                      *)

CreateReturned == pc = "done" /\ call.op = "Create"

(* The body carries only fields of the view, with the entity's values.     *)
OnlyFieldsOf(view, body, e) ==
    /\ DOMAIN body \subseteq view
    /\ \A f \in DOMAIN body : body[f] = e[f]

(* The caller's entity after Create: the draft, with every field the       *)
(* response carries overwritten by the response's value.                   *)
DecodedInPlace(draft, obj) ==
    \A f \in Fields(kind) : ent[f] = (IF f \in DOMAIN obj THEN obj[f] ELSE draft[f])

(* C5: Create sends exactly one request, a POST to the collection whose    *)
(* body has only create-view fields, with the given entity's values; it    *)
(* returns no error only when the status is 201 Created, and an error      *)
(* carrying the status for any other status (200 included); on success the *)
(* caller's entity holds the decoded response and is what is returned.     *)
C5_Create ==
    CreateReturned =>
        /\ Len(log) = 1
        /\ log[1].req.method = "POST" /\ log[1].req.member = <<>> /\ log[1].req.hasBody
        /\ OnlyFieldsOf(CreateView(kind), log[1].req.obj, call.draft)
        /\ ret.err = NoErr => log[1].resp.status = 201
        /\ (~log[1].resp.neterr /\ log[1].resp.status # 201) =>
             ret.err = ErrStatus(log[1].resp.status) /\ ret.isNil
        /\ ret.err = NoErr =>
             /\ ~ret.isNil
             /\ DecodedInPlace(call.draft, log[1].resp.obj)
             /\ ret.ent = ent

C5_Witness ==
    /\ CreateReturned
    /\ ret.err = NoErr
    /\ log[1].resp.status = 201
    /\ call.draft[IDField(kind)] = 0
    /\ ent[IDField(kind)] = 2
    /\ ret.ent = ent

GetAfterCreate ==
    /\ GetReturned
    /\ prev.op = "Create"
    /\ ParseArg(call.arg).ok
    /\ ParseArg(call.arg).val = prev.ent[IDField(kind)]

(* C6: a Get by the ID a successful Create has just returned yields, when  *)
(* it succeeds, a record whose create-view fields have the values that     *)
(* were submitted to Create (the server stores what it is sent).           *)
C6_CreateThenGet ==
    (GetAfterCreate /\ ret.err = NoErr) =>
        \A f \in CreateView(kind) : ret.ent[f] = prev.draft[f]

C6_Witness ==
    /\ GetAfterCreate
    /\ ret.err = NoErr
    /\ prev.draft[NameField(kind)] = NameAb
    /\ ret.ent[NameField(kind)] = NameAb
    /\ ret.ent[IDField(kind)] = 2

UpdateReturned == pc = "done" /\ call.op = "Update"

(* The read-only output of a record: its ID, timestamps and counters, the  *)
(* fields the create view does not have.                                   *)
ReadOnlyOutput(k) == Fields(k) \ CreateView(k)

(* C7 as stated, for every service: the body of Update's PUT has no        *)
(* read-only output field.                                                 *)
C7_UpdateAsClaimed ==
    UpdateReturned =>
        /\ Len(log) = 1
        /\ log[1].req.method = "PUT"
        /\ DOMAIN log[1].req.obj \cap ReadOnlyOutput(kind) = {}

(* C7: Update sends one PUT to the entity's ID path.  For bins, projects,  *)
(* messages and milestones its body has exactly the fields of the update   *)
(* view, none of them read-only output.  For tickets the update view       *)
(* embeds the whole ticket, so the body has every field of the ticket, the *)
(* number, the version and the timestamps included; only an empty state is *)
(* left out.                                                               *)
C7_UpdateBody ==
    UpdateReturned =>
        /\ Len(log) = 1
        /\ ByPath(log[1], "PUT", call.draft[IDField(kind)])
        /\ \A f \in DOMAIN log[1].req.obj : log[1].req.obj[f] = call.draft[f]
        /\ IF kind = "tickets"
           THEN /\ Fields(kind) \ {"state"} \subseteq DOMAIN log[1].req.obj
                /\ DOMAIN log[1].req.obj \subseteq Fields(kind)
                /\ "state" \in DOMAIN log[1].req.obj <=> call.draft["state"] # ""
           ELSE /\ DOMAIN log[1].req.obj = CreateView(kind)
                /\ DOMAIN log[1].req.obj \cap ReadOnlyOutput(kind) = {}

C7_Witness ==
    /\ UpdateReturned
    /\ kind = "tickets"
    /\ {"number", "version", "created_at"} \subseteq DOMAIN log[1].req.obj
    /\ log[1].req.obj["created_at"] = "t1"

-----------------------------------------------------------------------------
(* Decoding, status checks, failures.                                      *)

ListReturned == pc = "done" /\ call.op = "List"

(* C8: the list decoded from a collection envelope is as long as the       *)
(* envelope's array, and its i-th entity is the one the i-th element       *)
(* wraps; an array wrapping tickets number 1 and number 2 gives two        *)
(* tickets, number 1 then number 2.                                        *)
C8_DecodeCollection ==
    (ListReturned /\ ret.err = NoErr) =>
        /\ Len(ret.list) = Len(log[1].resp.items)
        /\ \A i \in 1..Len(ret.list) : ret.list[i] = log[1].resp.items[i].obj

C8_Witness ==
    /\ ListReturned /\ ret.err = NoErr
    /\ kind = "tickets"
    /\ log[1].resp.key = "tickets"
    /\ Len(log[1].resp.items) = 2
    /\ log[1].resp.items[1].key = "ticket"
    /\ <<ret.list[1]["number"], ret.list[2]["number"]>> = <<1, 2>>

Answered(x) == ~x.resp.neterr

(* C9: for every response that was checked, the check gave no error        *)
(* exactly when the status was the expected one, and otherwise the error   *)
(* of the call carries the status the server answered, so that the error   *)
(* for a 404 differs from the error for a 500.                             *)
C9_CheckResponse ==
    \A i \in 1..Len(log) :
        Answered(log[i]) =>
            /\ CheckResponse(log[i].resp, log[i].expected) = NoErr
                   <=> log[i].resp.status = log[i].expected
            /\ log[i].resp.status = log[i].expected => log[i].err.type # "status"
            /\ log[i].resp.status # log[i].expected =>
                   /\ log[i].err.type = "status"
                   /\ log[i].err.code = log[i].resp.status
                   /\ (pc = "done" => ret.err = log[i].err)
            /\ CheckResponse([log[i].resp EXCEPT !.status = 404], 200)
                   # CheckResponse([log[i].resp EXCEPT !.status = 500], 200)

C9_Witness ==
    /\ pc = "done"
    /\ Len(log) = 1
    /\ Answered(log[1])
    /\ log[1].expected = 200
    /\ log[1].resp.status = 404
    /\ ret.err = ErrStatus(404)

(* C10: within one call no request is sent twice and a failed request is   *)
(* the last one: the call has returned, with that error and no value; a    *)
(* ListAll returns no items and a by-name Delete has issued no DELETE.     *)
C10_NoRetry ==
    /\ \A i \in 1..Len(log) :
         Failed(log[i]) =>
             /\ i = Len(log)
             /\ pc = "done"
             /\ ret.err = log[i].err
             /\ ret.isNil
             /\ ret.list = <<>>
             /\ (DeleteByNameCalled /\ Listing(log[i])) =>
                    \A j \in 1..Len(log) : ~IsDelete(log[j])
    /\ \A i \in 1..Len(log) : \A j \in 1..Len(log) :
         i # j => log[i].req # log[j].req

C10_Witness ==
    /\ ListAllReturned
    /\ Len(log) = 2
    /\ ~Failed(log[1]) /\ Carries(log[1]) # <<>>
    /\ Failed(log[2])
    /\ ret.err = log[2].err
    /\ ret.isNil /\ ret.list = <<>>

-----------------------------------------------------------------------------
(* The export command (lh export).  One step is one fetch from the server  *)
(* together with the archive entries written before the next fetch.  The   *)
(* fetches are the library calls above; here only their outcome matters:   *)
(* an error, or a number of items.  Writes to the archive do not fail.     *)

MaxProjects == 2
MaxItems == 1
ExportPages == 2

(* The client variables while a command-line tool runs.                    *)
ClientIdle ==
    /\ kind = "tickets"
    /\ srv = [perPage |-> 0, ignoresPage |-> FALSE]
    /\ store = <<>>
    /\ pc = "idle"
    /\ call = NoCall
    /\ realOpts = NilOpts
    /\ ts = <<>>
    /\ target = ZeroEnt(kind)
    /\ ent = ZeroEnt(kind)
    /\ log = <<>>
    /\ ret = NoRet
    /\ prev = NoPrev

(* One more fetch made (fetches counts them); a failed one is recorded     *)
(* with what was fetched, for which project, and its number.               *)
Fetch(x, what, ok) ==
    [x EXCEPT !.fetches = @ + 1,
              !.failures = IF ok THEN @ ELSE Append(@, [what |-> what, p |-> x.p, at |-> x.fetches + 1])]

(* writeDir / writeJSONFile / writeFile: entries appended to the archive   *)
(* (names collects their names); the last one is remembered with the       *)
(* number of fetches made when it was written.                             *)
Wrote(x, names) ==
    IF names = <<>> THEN x
    ELSE [x EXCEPT !.names = @ \cup {names[i] : i \in 1..Len(names)},
                   !.last = [name |-> names[Len(names)], p |-> x.p, after |-> x.fetches]]

Items(name, k) == [i \in 1..k |-> name]

(* Mutant: fatalUsage returns and the command carries on.                  *)
fatalUsageReturns(x) == x

(* fatalUsage: close the archive and exit.                                 *)
fatalUsage(x) == [x EXCEPT !.pc = "exited"]

At(x, next) == [x EXCEPT !.pc = next]

(* plan and profile: `if err == nil { writeJSONFile(...) }`.               *)
OptionalFetched(x, ok, file, next) ==
    IF ok THEN At(Wrote(x, <<file>>), next) ELSE At(x, next)

(* The top of the loop over the projects: the project's directory and      *)
(* project.json, or the end of the command after the last project.         *)
EnterProject(x, p) ==
    IF p > x.projects THEN At(x, "finished")
    ELSE At(Wrote([x EXCEPT !.p = p], <<"project/", "project.json">>), "memberships")

(* A fetch whose failure is fatal, followed by the writes of its result.   *)
Fetched(x, ok, names, next) ==
    IF ok THEN At(Wrote(x, names), next) ELSE fatalUsage(x)

(* The loop over the tickets of a page (pending: the number of attachments *)
(* of each ticket not yet written): ticket.json for each, stopping at the  *)
(* first ticket whose attachments are to be downloaded; after the last     *)
(* ticket, the next page.                                                  *)
RECURSIVE NextTicket(_)
NextTicket(x) ==
    IF x.pending = <<>> THEN [x EXCEPT !.page = @ + 1, !.pc = "tickets"]
    ELSE IF ~x.attachments \/ Head(x.pending) = 0
    THEN NextTicket([Wrote(x, <<"ticket.json">>) EXCEPT !.pending = Tail(@)])
    ELSE [Wrote(x, <<"ticket.json">>) EXCEPT
             !.pc = "attachment", !.left = Head(x.pending), !.pending = Tail(@)]

TicketsListed(x, ok, page) ==
    IF ~ok THEN fatalUsage(x)
    ELSE IF page = <<>> THEN EnterProject(x, x.p + 1)
    ELSE NextTicket([x EXCEPT !.pending = page])

AttachmentRead(x, ok) ==
    IF ~ok THEN fatalUsage(x)
    ELSE IF x.left = 1 THEN NextTicket([Wrote(x, <<"attachment">>) EXCEPT !.left = 0])
    ELSE [Wrote(x, <<"attachment">>) EXCEPT !.left = @ - 1]

(* The pages of tickets the server may answer: up to MaxItems tickets of   *)
(* up to MaxItems attachments each; past the last page, none.              *)
TicketPages(page) ==
    IF page > ExportPages THEN {<<>>}
    ELSE UNION {[1..n -> 0..MaxItems] : n \in 0..MaxItems}

InitExport ==
    /\ ClientIdle
    /\ MigrateOff /\ DeleteOff /\ SignalOff /\ FilenameOff /\ LoadOff
    /\ ConvertOff /\ ArchiveOff /\ LabelsOff /\ ReplayOff /\ BodyOff
    /\ \E b \in BOOLEAN : xp = [ExportIdle EXCEPT !.pc = "start", !.attachments = b]

(* exportCmd.Run up to the first fetch: the archive's base directory.      *)
ExportStart ==
    /\ xp.pc = "start"
    /\ xp' = At(Wrote(xp, <<"base/">>), "plan")
    /\ UNCHANGED exportRest

(* service.Plan()                                                          *)
ExportPlan ==
    /\ xp.pc = "plan"
    /\ \E ok \in BOOLEAN :
         xp' = OptionalFetched(Fetch(xp, "plan", ok), ok, "plan.json", "profile")
    /\ UNCHANGED exportRest

(* profiles Get()                                                          *)
ExportProfile ==
    /\ xp.pc = "profile"
    /\ \E ok \in BOOLEAN :
         xp' = OptionalFetched(Fetch(xp, "profile", ok), ok, "profile.json", "projects")
    /\ UNCHANGED exportRest

ProjectsListed(x, ok, n) ==
    IF ok THEN EnterProject([x EXCEPT !.projects = n], 1) ELSE fatalUsage(x)

(* projects List()                                                         *)
ExportProjects ==
    /\ xp.pc = "projects"
    /\ \E ok \in BOOLEAN, n \in 0..MaxProjects :
         xp' = ProjectsListed(Fetch(xp, "projects", ok), ok, n)
    /\ UNCHANGED exportRest

(* MembershipsByID(project.ID)                                             *)
ExportMemberships ==
    /\ xp.pc = "memberships"
    /\ \E ok \in BOOLEAN :
         xp' = Fetched(Fetch(xp, "memberships", ok), ok, <<"memberships.json">>, "bins")
    /\ UNCHANGED exportRest

(* bins List()                                                             *)
ExportBins ==
    /\ xp.pc = "bins"
    /\ \E ok \in BOOLEAN, k \in 0..MaxItems :
         xp' = Fetched(Fetch(xp, "bins", ok), ok,
                       <<"bins/">> \o Items("bin.json", k), "changesets")
    /\ UNCHANGED exportRest

(* changesets List()                                                       *)
ExportChangesets ==
    /\ xp.pc = "changesets"
    /\ \E ok \in BOOLEAN, k \in 0..MaxItems :
         xp' = Fetched(Fetch(xp, "changesets", ok), ok,
                       <<"changesets/">> \o Items("changeset.json", k), "messages")
    /\ UNCHANGED exportRest

(* messages List()                                                         *)
ExportMessages ==
    /\ xp.pc = "messages"
    /\ \E ok \in BOOLEAN, k \in 0..MaxItems :
         xp' = Fetched(Fetch(xp, "messages", ok), ok,
                       <<"messages/">> \o Items("message.json", k), "milestones")
    /\ UNCHANGED exportRest

MilestonesListed(x, ok) == IF ok THEN [x EXCEPT !.page = 1] ELSE x

(* milestones ListAll(nil), then the tickets directory and opts.Page = 1   *)
ExportMilestones ==
    /\ xp.pc = "milestones"
    /\ \E ok \in BOOLEAN, k \in 0..MaxItems :
         xp' = MilestonesListed(
                   Fetched(Fetch(xp, "milestones", ok), ok,
                           <<"milestones/">> \o Items("milestone.json", k) \o <<"tickets/">>,
                           "tickets"), ok)
    /\ UNCHANGED exportRest

(* tickets List(opts), one page                                            *)
ExportTickets ==
    /\ xp.pc = "tickets"
    /\ \E ok \in BOOLEAN, page \in TicketPages(xp.page) :
         xp' = TicketsListed(Fetch(xp, "tickets", ok), ok, page)
    /\ UNCHANGED exportRest

(* GetAttachment and ioutil.ReadAll of one attachment                      *)
ExportAttachment ==
    /\ xp.pc = "attachment"
    /\ \E ok \in BOOLEAN : xp' = AttachmentRead(Fetch(xp, "attachment", ok), ok)
    /\ UNCHANGED exportRest

NextExport ==
    \/ ExportStart
    \/ ExportPlan
    \/ ExportProfile
    \/ ExportProjects
    \/ ExportMemberships
    \/ ExportBins
    \/ ExportChangesets
    \/ ExportMessages
    \/ ExportMilestones
    \/ ExportTickets
    \/ ExportAttachment

SpecExport == InitExport /\ [][NextExport]_vars

(* The failure f ended the export: it is the last fetch, the command has   *)
(* exited, and no archive entry was written after it.                      *)
Aborts(f) ==
    /\ f.at = xp.fetches
    /\ xp.pc = "exited"
    /\ xp.last.after < f.at

(* C11 as stated: the failure of any fetch, plan and profile included,     *)
(* aborts the export.                                                      *)
C11_AnyFailureAborts ==
    \A i \in 1..Len(xp.failures) : Aborts(xp.failures[i])

(* The export went on after the failure f, without the entry.              *)
GoesOn(f) ==
    /\ xp.pc # "exited" \/ f.at < xp.fetches
    /\ (f.what \o ".json") \notin xp.names

(* C11: the failure of the project list, of a project's memberships, bins, *)
(* changesets, messages or milestones, of a page of tickets or of an       *)
(* attachment download aborts the export: no fetch and no archive entry    *)
(* follows it.  The failure of the plan or of the profile does not: the    *)
(* entry is left out and the export goes on with the next fetch.           *)
C11_ExportAborts ==
    /\ \A i \in 1..Len(xp.failures) :
         IF xp.failures[i].what \in {"plan", "profile"}
         THEN GoesOn(xp.failures[i])
         ELSE Aborts(xp.failures[i])
    /\ xp.pc = "exited" =>
         /\ xp.failures # <<>>
         /\ xp.failures[Len(xp.failures)].at = xp.fetches

C11_Witness ==
    /\ xp.pc = "exited"
    /\ Len(xp.failures) = 2
    /\ xp.failures[1].what = "plan"
    /\ xp.failures[2] = [what |-> "attachment", p |-> 2, at |-> xp.fetches]
    /\ xp.last = [name |-> "ticket.json", p |-> 2, after |-> xp.fetches - 1]
    /\ "profile.json" \in xp.names

-----------------------------------------------------------------------------
(* The migration (lhtogitlab without -delete).  One step is one iteration  *)
(* of one of main's loops: the call to the target tracker it makes, whose  *)
(* outcome is chosen freely, and the move to the next iteration.  The      *)
(* export is seen by its shape: how many convertible users, groups,        *)
(* projects, labels, ... it holds, drawn when the loop over them starts.   *)

MaxSoft == 2
MaxVersions == 2

(* Mutant: the milestones of a project are created before its members    *)
(* are added.                                                              *)
AfterMilestonesFirst(phase) ==
    CASE phase = "groups" -> "projects"
      [] phase = "gmembers" -> "groups"
      [] phase = "labels" -> "milestones"
      [] phase = "milestones" -> "members"
      [] phase = "members" -> "tickets"
      [] phase = "tickets" -> "projects"
      [] phase = "watchers" -> "versions"
      [] phase = "versions" -> "tickets"
      [] OTHER -> phase

(* Where main goes when the loop of a phase has no iteration left: the     *)
(* next loop of the same body or, after the last, the enclosing loop.      *)
After(phase) ==
    CASE phase = "groups" -> "projects"
      [] phase = "gmembers" -> "groups"
      [] phase = "labels" -> "members"
      [] phase = "members" -> "milestones"
      [] phase = "milestones" -> "tickets"
      [] phase = "tickets" -> "projects"
      [] phase = "watchers" -> "versions"
      [] phase = "versions" -> "tickets"
      [] OTHER -> phase

(* The loops main returns to when an inner loop ends; the others start    *)
(* when the loop before them ends.                                         *)
Inner == {"gmembers", "versions", "tickets"}

(* The most items a loop of the export is given.                           *)
Most(phase) ==
    CASE phase \in {"labels", "members"} -> MaxSoft
      [] phase = "versions" -> MaxVersions
      [] phase = "projects" -> MaxProjects
      [] OTHER -> MaxItems

(* What the export holds next: the first loop not yet started that has an  *)
(* item, with the number of its items; or nothing more in this scope.      *)
Draws(phases) ==
    {[phase |-> "none", n |-> 0]} \cup
    UNION {{[phase |-> ph, n |-> k] : k \in 1..Most(ph)} : ph \in phases}

(* The loops that may start when a call of phase ph is over.               *)
Ahead(ph) ==
    CASE ph = "start" -> {"users"}
      [] ph = "listusers" -> {"groups", "projects"}
      [] ph = "groups" -> {"gmembers", "projects"}
      [] ph = "gmembers" -> {"projects"}
      [] ph \in {"projects", "labels", "members", "milestones", "updmilestone"} ->
           {"labels", "members", "milestones", "tickets"}
      [] ph = "tickets" -> {"watchers", "versions"}
      [] ph = "watchers" -> {"versions"}
      [] ph = "versions" -> {"uploads"}
      [] OTHER -> {}

(* The loop of phase ph starts, over the items the export holds for it.    *)
Enter(x, ph, d) ==
    [x EXCEPT !.pc = ph, !.left[ph] = IF d.phase = ph THEN d.n ELSE 0]

(* The position of the next call: loops without an iteration left are      *)
(* passed.  ListUsers follows the users, the note step follows the         *)
(* uploads of a version, and the migration ends after the last project.    *)
RECURSIVE Settle(_, _)
Settle(x, d) ==
    IF x.pc \in {"start", "listusers", "updmilestone", "note", "done"} THEN x
    ELSE IF x.left[x.pc] > 0 THEN x
    ELSE IF x.pc = "users" THEN [x EXCEPT !.pc = "listusers"]
    ELSE IF x.pc = "uploads" THEN [x EXCEPT !.pc = "note"]
    ELSE IF x.pc = "projects" THEN [x EXCEPT !.pc = "done"]
    ELSE IF x.pc \in Inner THEN Settle([x EXCEPT !.pc = After(x.pc)], d)
    ELSE Settle(Enter(x, After(x.pc), d), d)

(* One iteration of the current loop is over.                              *)
Looped(x, d) == Settle([x EXCEPT !.left[x.pc] = @ - 1], d)

(* One iteration of the current loop is over, and the loop of phase ph     *)
(* inside it starts.                                                       *)
Nested(x, ph, d) == Settle(Enter([x EXCEPT !.left[x.pc] = @ - 1], ph, d), d)

(* A call appended to a log unless the log ends with the same call.        *)
Collapse(l, k) == IF l # <<>> /\ l[Len(l)] = k THEN l ELSE Append(l, k)

(* A call appended to a log unless the log holds the same call.            *)
Once(l, k) == IF \E i \in 1..Len(l) : l[i] = k THEN l ELSE Append(l, k)

(* The creation of a user, of a group or of a project.                     *)
GlobalCall(x, k) == [x EXCEPT !.glog = Collapse(@, k)]

(* The creation of the current project, or of a label, member, milestone   *)
(* or issue of it.                                                         *)
ProjectCall(x, k) == [x EXCEPT !.plog = Collapse(@, k)]

(* A call on the current issue.                                            *)
IssueCall(x, k) == [x EXCEPT !.ilog = Once(@, k)]

(* A call of the replay of the current version.                            *)
VersionCall(x, e) == [IssueCall(x, e.kind) EXCEPT !.vlog = Append(@, e)]

(* A label or member call that failed is remembered until the next         *)
(* project.                                                                *)
Outcome(x, k, ok) == IF ok THEN x ELSE [x EXCEPT !.failed = @ \cup {k}]

(* A ticket version: whether its body is blank, whether it was created at  *)
(* the ticket's own creation time.                                         *)
VersionShapes == [blank : BOOLEAN, current : BOOLEAN]

(* main from the users map to the first call.                              *)
Started(x, d) == Settle(Enter(x, "users", d), d)

(* git.Users.CreateUser                                                    *)
UserCreated(x, ok, d) == Looped(GlobalCall(x, "CreateUser"), d)

(* git.Users.ListUsers: its error is not looked at.  Then the groups file. *)
UsersListed(x, d) == Settle(Enter(x, "groups", d), d)

(* git.Groups.CreateGroup: on failure the group's members are skipped.     *)
GroupCreated(x, ok, d) ==
    IF ok
    THEN Nested(GlobalCall(x, "CreateGroup"), "gmembers", d)
    ELSE Looped(GlobalCall(x, "CreateGroup"), d)

(* git.GroupMembers.AddGroupMember                                         *)
GroupMemberAdded(x, ok, d) == Looped(x, d)

(* The project loop reaches a new project: its calls start afresh.         *)
NewProject(x) ==
    [GlobalCall(x, "CreateProject") EXCEPT
        !.plog = <<"CreateProject">>, !.ilog = <<>>, !.vlog = <<>>,
        !.failed = {}, !.pfs = 0]

(* git.Projects.CreateProject: on failure the project is skipped whole.    *)
ProjectCreated(x, ok, d) ==
    IF ok THEN Nested(x, "labels", d) ELSE Looped(x, d)

(* Mutant: a failed label creation skips the rest of the project.          *)
LabelCreatedOrSkip(x, ok, d) ==
    IF ok THEN Looped(ProjectCall(x, "CreateLabel"), d)
    ELSE Settle([Outcome(ProjectCall(x, "CreateLabel"), "CreateLabel", ok)
                    EXCEPT !.pc = "projects"], d)

(* git.Labels.CreateLabel                                                  *)
LabelCreated(x, ok, d) ==
    Looped(Outcome(ProjectCall(x, "CreateLabel"), "CreateLabel", ok), d)

(* git.ProjectMembers.AddProjectMember                                     *)
ProjectMemberAdded(x, ok, d) ==
    Looped(Outcome(ProjectCall(x, "AddProjectMember"), "AddProjectMember", ok), d)

(* git.Milestones.CreateMilestone: on failure, or when the milestone       *)
(* converts to no update, the update is skipped.                           *)
MilestoneCreated(x, ok, upd, d) ==
    IF ok /\ upd
    THEN [ProjectCall(x, "CreateMilestone") EXCEPT !.pc = "updmilestone"]
    ELSE Looped(ProjectCall(x, "CreateMilestone"), d)

(* git.Milestones.UpdateMilestone                                          *)
MilestoneUpdated(x, ok, d) ==
    Looped([x EXCEPT !.pc = "milestones"], d)

(* The ticket loop reaches a new ticket: its calls start afresh.           *)
NewIssue(x) ==
    [ProjectCall(x, "CreateIssue") EXCEPT
        !.ilog = <<"CreateIssue">>, !.vlog = <<>>, !.pfs = 0]

(* git.Issues.CreateIssue: on failure the ticket is skipped whole.         *)
IssueCreated(x, ok, d) ==
    IF ok THEN Nested(x, "watchers", d) ELSE Looped(x, d)

(* git.Issues.SubscribeToIssue                                             *)
Subscribed(x, ok, d) == Looped(IssueCall(x, "SubscribeToIssue"), d)

(* The version loop reaches a new version: git.Issues.UpdateIssue, then    *)
(* the version's attachments with an empty pfs.                            *)
IssueUpdated(x, ok, ver, d) ==
    Nested([VersionCall([x EXCEPT !.vlog = <<>>], [kind |-> "UpdateIssue"]) EXCEPT
               !.ver = ver, !.pfs = 0], "uploads", d)

(* git.Projects.UploadFile: pf is appended to pfs on success only.         *)
FileUploaded(x, ok, d) ==
    Looped([VersionCall(x, [kind |-> "UploadFile"])
               EXCEPT !.pfs = IF ok THEN @ + 1 ELSE @], d)

(* lhTicketVersionToCreateIssueNote: the note's body is the version's body *)
(* unless the version is the ticket's current one, then the link of each   *)
(* uploaded file; no note when that is blank.                              *)
NoteBody(ver, pfs) == [text |-> ~ver.current /\ ~ver.blank, files |-> pfs]

NoteOk(ver, pfs) == NoteBody(ver, pfs).text \/ pfs > 0

(* Mutant: a note for every version but the current one.                   *)
NotePostedAsStated(x, ok, d) ==
    IF ~x.ver.current
    THEN Settle([VersionCall(x, [kind |-> "CreateIssueNote",
                                 body |-> NoteBody(x.ver, x.pfs)])
                    EXCEPT !.pc = "versions"], d)
    ELSE Settle([x EXCEPT !.pc = "versions"], d)

(* git.Notes.CreateIssueNote, when there is a note to post.                *)
NotePosted(x, ok, d) ==
    IF NoteOk(x.ver, x.pfs)
    THEN Settle([VersionCall(x, [kind |-> "CreateIssueNote",
                                 body |-> NoteBody(x.ver, x.pfs)])
                    EXCEPT !.pc = "versions"], d)
    ELSE Settle([x EXCEPT !.pc = "versions"], d)

InitMigrate ==
    /\ ClientIdle
    /\ ExportOff /\ DeleteOff /\ SignalOff /\ FilenameOff /\ LoadOff
    /\ ConvertOff /\ ArchiveOff /\ LabelsOff /\ ReplayOff /\ BodyOff
    /\ mg = [MigrateIdle EXCEPT !.pc = "start"]
    /\ sh = mg

MigrateStart ==
    /\ mg.pc = "start"
    /\ \E d \in Draws(Ahead(mg.pc)) :
         /\ mg' = Started(mg, d)
         /\ sh' = Started(sh, d)
    /\ UNCHANGED migrateRest

CreateUser ==
    /\ mg.pc = "users"
    /\ \E ok \in BOOLEAN, d \in Draws(Ahead(mg.pc)) :
         /\ mg' = UserCreated(mg, ok, d)
         /\ sh' = UserCreated(sh, ok, d)
    /\ UNCHANGED migrateRest

ListUsers ==
    /\ mg.pc = "listusers"
    /\ \E d \in Draws(Ahead(mg.pc)) :
         /\ mg' = UsersListed(mg, d)
         /\ sh' = UsersListed(sh, d)
    /\ UNCHANGED migrateRest

CreateGroup ==
    /\ mg.pc = "groups"
    /\ \E ok \in BOOLEAN, d \in Draws(Ahead(mg.pc)) :
         /\ mg' = GroupCreated(mg, ok, d)
         /\ sh' = GroupCreated(sh, ok, d)
    /\ UNCHANGED migrateRest

AddGroupMember ==
    /\ mg.pc = "gmembers"
    /\ \E ok \in BOOLEAN, d \in Draws(Ahead(mg.pc)) :
         /\ mg' = GroupMemberAdded(mg, ok, d)
         /\ sh' = GroupMemberAdded(sh, ok, d)
    /\ UNCHANGED migrateRest

CreateProject ==
    /\ mg.pc = "projects"
    /\ \E ok \in BOOLEAN, d \in Draws(Ahead(mg.pc)) :
         /\ mg' = ProjectCreated(NewProject(mg), ok, d)
         /\ sh' = ProjectCreated(NewProject(sh), ok, d)
    /\ UNCHANGED migrateRest

CreateLabel ==
    /\ mg.pc = "labels"
    /\ \E ok \in BOOLEAN, d \in Draws(Ahead(mg.pc)) :
         /\ mg' = LabelCreated(mg, ok, d)
         /\ sh' = LabelCreated(sh, TRUE, d)
    /\ UNCHANGED migrateRest

AddProjectMember ==
    /\ mg.pc = "members"
    /\ \E ok \in BOOLEAN, d \in Draws(Ahead(mg.pc)) :
         /\ mg' = ProjectMemberAdded(mg, ok, d)
         /\ sh' = ProjectMemberAdded(sh, TRUE, d)
    /\ UNCHANGED migrateRest

CreateMilestone ==
    /\ mg.pc = "milestones"
    /\ \E ok \in BOOLEAN, upd \in BOOLEAN, d \in Draws(Ahead(mg.pc)) :
         /\ mg' = MilestoneCreated(mg, ok, upd, d)
         /\ sh' = MilestoneCreated(sh, ok, upd, d)
    /\ UNCHANGED migrateRest

UpdateMilestone ==
    /\ mg.pc = "updmilestone"
    /\ \E ok \in BOOLEAN, d \in Draws(Ahead(mg.pc)) :
         /\ mg' = MilestoneUpdated(mg, ok, d)
         /\ sh' = MilestoneUpdated(sh, ok, d)
    /\ UNCHANGED migrateRest

CreateIssue ==
    /\ mg.pc = "tickets"
    /\ \E ok \in BOOLEAN, d \in Draws(Ahead(mg.pc)) :
         /\ mg' = IssueCreated(NewIssue(mg), ok, d)
         /\ sh' = IssueCreated(NewIssue(sh), ok, d)
    /\ UNCHANGED migrateRest

SubscribeToIssue ==
    /\ mg.pc = "watchers"
    /\ \E ok \in BOOLEAN, d \in Draws(Ahead(mg.pc)) :
         /\ mg' = Subscribed(mg, ok, d)
         /\ sh' = Subscribed(sh, ok, d)
    /\ UNCHANGED migrateRest

UpdateIssue ==
    /\ mg.pc = "versions"
    /\ \E ok \in BOOLEAN, ver \in VersionShapes, d \in Draws(Ahead(mg.pc)) :
         /\ mg' = IssueUpdated(mg, ok, ver, d)
         /\ sh' = IssueUpdated(sh, ok, ver, d)
    /\ UNCHANGED migrateRest

UploadFile ==
    /\ mg.pc = "uploads"
    /\ \E ok \in BOOLEAN, d \in Draws(Ahead(mg.pc)) :
         /\ mg' = FileUploaded(mg, ok, d)
         /\ sh' = FileUploaded(sh, TRUE, d)
    /\ UNCHANGED migrateRest

CreateIssueNote ==
    /\ mg.pc = "note"
    /\ \E ok \in BOOLEAN, d \in Draws(Ahead(mg.pc)) :
         /\ mg' = NotePosted(mg, ok, d)
         /\ sh' = NotePosted(sh, ok, d)
    /\ UNCHANGED migrateRest

NextMigrate ==
    \/ MigrateStart
    \/ CreateUser
    \/ ListUsers
    \/ CreateGroup
    \/ AddGroupMember
    \/ CreateProject
    \/ CreateLabel
    \/ AddProjectMember
    \/ CreateMilestone
    \/ UpdateMilestone
    \/ CreateIssue
    \/ SubscribeToIssue
    \/ UpdateIssue
    \/ UploadFile
    \/ CreateIssueNote

SpecMigrate == InitMigrate /\ [][NextMigrate]_vars

(* The rank of a creation call in the dependency order.                    *)
Rank(k) ==
    CASE k = "CreateUser" -> 1
      [] k = "CreateGroup" -> 2
      [] k = "CreateProject" -> 3
      [] k = "CreateLabel" -> 4
      [] k = "AddProjectMember" -> 5
      [] k = "CreateMilestone" -> 6
      [] k = "CreateIssue" -> 7
      [] OTHER -> 8

Ascending(l) == \A i \in 1..Len(l) - 1 : Rank(l[i]) < Rank(l[i + 1])

(* C12: the migration replays in dependency order.  No user is created     *)
(* after a group or a project, no group after a project; in each project   *)
(* the project's creation comes first, no label is created after a member  *)
(* was added, no member added after a milestone was created, no milestone  *)
(* created after an issue; and the first call on an issue is its creation, *)
(* before its subscriptions, updates, uploads and notes.                   *)
C12_DependencyOrder ==
    /\ Ascending(mg.glog)
    /\ Ascending(mg.plog)
    /\ mg.plog # <<>> => mg.plog[1] = "CreateProject"
    /\ mg.ilog # <<>> =>
         /\ mg.ilog[1] = "CreateIssue"
         /\ mg.plog[Len(mg.plog)] = "CreateIssue"

C12_Witness ==
    /\ mg.glog = <<"CreateUser", "CreateGroup", "CreateProject">>
    /\ mg.plog = <<"CreateProject", "CreateLabel", "AddProjectMember",
                   "CreateMilestone", "CreateIssue">>
    /\ Len(mg.ilog) = 5

(* The replay of a version is over.                                        *)
VersionDone == mg.vlog # <<>> /\ mg.pc \notin {"uploads", "note"}

Count(l, k) == Cardinality({i \in 1..Len(l) : l[i].kind = k})

NoNotes(l) == SelectSeq(l, LAMBDA k : k # "CreateIssueNote")

NoNoteCalls(l) == SelectSeq(l, LAMBDA e : e.kind # "CreateIssueNote")

-----------------------------------------------------------------------------
(* The migration tool in -delete mode.  One step is one call to the target *)
(* tracker: a listing, or the deletion of one listed group, project or     *)
(* user.  log.Fatal ends the process.                                      *)

MaxUsers == 3

(* The usernames of the target tracker; the token's owner is one of them.  *)
Usernames == <<"root", "admin", "alice", "bob">>

RECURSIVE Listings(_)
(* The user lists of up to n users, each user at most once.                *)
Listings(n) ==
    IF n = 0 THEN {<<>>}
    ELSE Listings(n - 1) \cup
         {Append(l, u) : l \in Listings(n - 1),
                         u \in {Usernames[i] : i \in 1..Len(Usernames)}}

UserLists ==
    {l \in Listings(MaxUsers) : \A i, j \in 1..Len(l) : l[i] = l[j] => i = j}

(* A call to the target tracker, with its target and its outcome.          *)
Did(x, k, who, ok) ==
    [x EXCEPT !.log = Append(@, [kind |-> k, target |-> who, ok |-> ok])]

(* log.Fatal(err)                                                          *)
Fatal(x) == [x EXCEPT !.pc = "fatal"]

(* The loop over a listing: the next item to delete, or the next listing.  *)
Range(x, loop, done) ==
    IF x.todo = <<>> THEN [x EXCEPT !.pc = done] ELSE [x EXCEPT !.pc = loop]

(* The users loop passes root and the token's owner.                       *)
RECURSIVE RangeUsers(_)
RangeUsers(x) ==
    IF x.todo = <<>> THEN [x EXCEPT !.pc = "returned"]
    ELSE IF Head(x.todo) = "root" \/ Head(x.todo) = x.me
    THEN RangeUsers([x EXCEPT !.todo = Tail(@)])
    ELSE [x EXCEPT !.pc = "users"]

(* ListGroups / ListProjects / ListUsers: fatal on error.                  *)
Listed(x, ok, l, loop, done) ==
    IF ~ok THEN Fatal(x)
    ELSE IF loop = "users" THEN RangeUsers([x EXCEPT !.todo = l, !.listed = @ \cup {l}])
    ELSE Range([x EXCEPT !.todo = l, !.listed = @ \cup {l}], loop, done)

(* DeleteGroup / DeleteProject: `_, err = ...; if err != nil { log.Fatal }` *)
Removed(x, ok, loop, done) ==
    IF ok THEN Range([x EXCEPT !.todo = Tail(@)], loop, done) ELSE Fatal(x)

(* Mutant: the result of DeleteUser is assigned to err and tested.         *)
UserRemovedChecked(x, ok) ==
    IF ok THEN RangeUsers([x EXCEPT !.todo = Tail(@)]) ELSE Fatal(x)

(* git.Users.DeleteUser(u.ID): its result is dropped, and the err tested   *)
(* after it is the nil error of ListUsers.                                 *)
UserRemoved(x, ok) == RangeUsers([x EXCEPT !.todo = Tail(@)])

(* The groups and projects a listing returns.                              *)
Named(names, n) == [i \in 1..n |-> names[i]]

GroupNames == <<"group 1", "group 2", "group 3">>

ProjectNames == <<"project 1", "project 2", "project 3">>

InitDelete ==
    /\ ClientIdle
    /\ ExportOff /\ MigrateOff /\ SignalOff /\ FilenameOff /\ LoadOff
    /\ ConvertOff /\ ArchiveOff /\ LabelsOff /\ ReplayOff /\ BodyOff
    /\ \E me \in {"root", "admin"} :
         dl = [DeleteIdle EXCEPT !.pc = "listgroups", !.me = me]

ListGroups ==
    /\ dl.pc = "listgroups"
    /\ \E ok \in BOOLEAN, n \in 0..MaxItems :
         dl' = Listed(Did(dl, "ListGroups", "", ok), ok, Named(GroupNames, n),
                      "groups", "listprojects")
    /\ UNCHANGED deleteRest

DeleteGroup ==
    /\ dl.pc = "groups"
    /\ \E ok \in BOOLEAN :
         dl' = Removed(Did(dl, "DeleteGroup", Head(dl.todo), ok), ok,
                       "groups", "listprojects")
    /\ UNCHANGED deleteRest

ListProjects ==
    /\ dl.pc = "listprojects"
    /\ \E ok \in BOOLEAN, n \in 0..MaxItems :
         dl' = Listed(Did(dl, "ListProjects", "", ok), ok, Named(ProjectNames, n),
                      "projects", "listusers")
    /\ UNCHANGED deleteRest

DeleteProject ==
    /\ dl.pc = "projects"
    /\ \E ok \in BOOLEAN :
         dl' = Removed(Did(dl, "DeleteProject", Head(dl.todo), ok), ok,
                       "projects", "listusers")
    /\ UNCHANGED deleteRest

ListUsersToDelete ==
    /\ dl.pc = "listusers"
    /\ \E ok \in BOOLEAN, l \in UserLists :
         dl' = Listed(Did(dl, "ListUsers", "", ok), ok, l, "users", "returned")
    /\ UNCHANGED deleteRest

DeleteUser ==
    /\ dl.pc = "users"
    /\ \E ok \in BOOLEAN :
         dl' = UserRemoved(Did(dl, "DeleteUser", Head(dl.todo), ok), ok)
    /\ UNCHANGED deleteRest

NextDelete ==
    \/ ListGroups
    \/ DeleteGroup
    \/ ListProjects
    \/ DeleteProject
    \/ ListUsersToDelete
    \/ DeleteUser

SpecDelete == InitDelete /\ [][NextDelete]_vars

IsDeleteCall(e) == e.kind \in {"DeleteGroup", "DeleteProject", "DeleteUser"}

(* Every listed group, project and user but root and the token's owner has *)
(* its delete call.                                                        *)
AllDeleted ==
    \A l \in dl.listed : \A i \in 1..Len(l) :
        l[i] \in {"root", dl.me} \/
        \E j \in 1..Len(dl.log) : IsDeleteCall(dl.log[j]) /\ dl.log[j].target = l[i]

(* Only listings and deletions are called, and never the deletion of root  *)
(* or of the token's owner.                                                *)
OnlyDeletes ==
    \A j \in 1..Len(dl.log) :
        /\ dl.log[j].kind \in {"ListGroups", "ListProjects", "ListUsers",
                               "DeleteGroup", "DeleteProject", "DeleteUser"}
        /\ dl.log[j].kind = "DeleteUser" => dl.log[j].target \notin {"root", dl.me}

(* C14 as stated: in -delete mode every listed group, project and user but *)
(* root and the token's owner gets a delete call, no other call is made,   *)
(* and a failed delete call is fatal: it is the last call of the run.      *)
C14_DeleteMode ==
    /\ OnlyDeletes
    /\ dl.pc = "returned" => AllDeleted
    /\ \A j \in 1..Len(dl.log) :
         IsDeleteCall(dl.log[j]) /\ ~dl.log[j].ok => j = Len(dl.log) /\ dl.pc = "fatal"

(* What the code does: as stated for groups and projects; a failed user    *)
(* deletion is not fatal, the run goes on to the next user.                *)
C14_DeleteUserUnchecked ==
    /\ OnlyDeletes
    /\ dl.pc = "returned" => AllDeleted
    /\ \A j \in 1..Len(dl.log) :
         IsDeleteCall(dl.log[j]) /\ ~dl.log[j].ok =>
            IF dl.log[j].kind = "DeleteUser"
            THEN dl.pc # "fatal"
            ELSE j = Len(dl.log) /\ dl.pc = "fatal"

C14_Witness ==
    /\ dl.pc = "returned"
    /\ Len(dl.log) >= 6
    /\ \E j \in 1..Len(dl.log) - 1 :
         /\ dl.log[j].kind = "DeleteUser" /\ ~dl.log[j].ok
         /\ dl.log[j + 1].kind = "DeleteUser"

-----------------------------------------------------------------------------
(* The start of the migration tool: readLHExport extracts the archive into *)
(* a temporary directory while a first goroutine listens for an interrupt; *)
(* main then starts a second listener and runs the migration.  One step is *)
(* one statement of the main flow or of a listener, or the delivery of an  *)
(* interrupt.  The process ends when it exits or is killed.                *)

MaxInterrupts == 2

(* The listener of readLHExport and the listener of main.                  *)
Listeners == {1, 2}

(* main flow: a step that only moves on.                                   *)
Goes(s, next) == [s EXCEPT !.pc = next]

(* ioutil.TempDir                                                          *)
TempDirMade(s, ok) ==
    IF ok THEN [s EXCEPT !.pc = "notify", !.tempDir = "dir", !.dir = TRUE]
    ELSE [s EXCEPT !.pc = "fatal", !.err = TRUE]

(* signal.Notify(c, os.Interrupt) and the go statement of listener n.      *)
Notified(s, n, next) ==
    [s EXCEPT !.pc = next, !.handler = n, !.l[n] = "waiting"]

(* The extraction and the reading of the archive: err.                     *)
Unarchived(s, ok) == [s EXCEPT !.pc = "return", !.err = ~ok]

(* `return nil, "", err` and `return e, tempDir, nil`: the results are     *)
(* assigned to the named results before the deferred calls run.            *)
ResultsSet(s) ==
    [s EXCEPT !.pc = "deferred", !.tempDir = IF s.err THEN "" ELSE @,
              !.written = TRUE]

(* The deferred cleanup of readLHExport.                                   *)
Deferred(s) ==
    [s EXCEPT !.pc = "reset",
              !.dir = IF s.err /\ s.tempDir # "" THEN FALSE ELSE @]

(* signal.Reset(os.Interrupt): the default disposition is restored.        *)
ResetDone(s, next) == [s EXCEPT !.pc = next, !.handler = 0]

(* The body of main after its listener has started: it runs to the end of  *)
(* main, or to the return of the -delete mode, and the deferred calls      *)
(* follow; or it ends in log.Fatal, which exits at once.                   *)
MigrationOutcomes == {"completed", "deleted", "fatal"}

Migrating(s, outcome) ==
    IF outcome = "fatal" THEN [s EXCEPT !.exited = "fatal"]
    ELSE Goes(s, "mainreset")

(* The deferred os.RemoveAll(tempDir) of main, and the end of main.        *)
RemovedAtEnd(s) == [s EXCEPT !.pc = "end", !.dir = FALSE, !.exited = "returned"]

(* An interrupt: with the default disposition it kills the process; with a *)
(* channel registered it is sent to the channel, dropped when the buffer   *)
(* is full.                                                                *)
Interrupted(s) ==
    IF s.handler = 0
    THEN [s EXCEPT !.ints = @ + 1, !.exited = "killed"]
    ELSE [s EXCEPT !.ints = @ + 1, !.c[s.handler] = TRUE]

(* <-c                                                                     *)
Received(s, n) == [s EXCEPT !.c[n] = FALSE, !.l[n] = "reset"]

(* The listener's signal.Reset(os.Interrupt).                              *)
ListenerReset(s, n) == [s EXCEPT !.handler = 0, !.l[n] = "check"]

(* The values `len(tempDir) > 0` may see.  The listener of main reads      *)
(* main's tempDir, set before the listener started.  The listener of       *)
(* readLHExport reads the named result, which the return statement writes  *)
(* with nothing ordering the two: once the return is reached the read may  *)
(* see the value before or after it.                                       *)
Seen(s, n) ==
    IF n = 2 THEN {"dir"}
    ELSE IF s.err /\ (s.pc = "return" \/ s.written) THEN {"dir", ""}
    ELSE {"dir"}

(* if len(tempDir) > 0                                                     *)
Checked(s, n, v) ==
    [s EXCEPT !.l[n] = IF v # "" THEN "remove" ELSE IF n = 2 THEN "exit" ELSE "done",
              !.read[n] = TRUE]

(* The listener's os.RemoveAll(tempDir); the listener of readLHExport ends *)
(* there.                                                                  *)
ListenerRemoved(s, n) ==
    [s EXCEPT !.dir = FALSE, !.l[n] = IF n = 2 THEN "exit" ELSE "done"]

(* os.Exit(1), in the listener of main only.                               *)
ListenerExited(s, n) == [s EXCEPT !.l[n] = "done", !.exited = "exit"]

InitSignal ==
    /\ ClientIdle
    /\ ExportOff /\ MigrateOff /\ DeleteOff /\ FilenameOff /\ LoadOff
    /\ ConvertOff /\ ArchiveOff /\ LabelsOff /\ ReplayOff /\ BodyOff
    /\ sg = [SignalIdle EXCEPT !.pc = "tempdir"]

Running == sg.exited = ""

TempDir ==
    /\ Running /\ sg.pc = "tempdir"
    /\ \E ok \in BOOLEAN : sg' = TempDirMade(sg, ok)
    /\ UNCHANGED signalRest

NotifyInRead ==
    /\ Running /\ sg.pc = "notify"
    /\ sg' = Notified(sg, 1, "reading")
    /\ UNCHANGED signalRest

Unarchive ==
    /\ Running /\ sg.pc = "reading"
    /\ \E ok \in BOOLEAN : sg' = Unarchived(sg, ok)
    /\ UNCHANGED signalRest

ReturnFromRead ==
    /\ Running /\ sg.pc = "return"
    /\ sg' = ResultsSet(sg)
    /\ UNCHANGED signalRest

DeferredCleanup ==
    /\ Running /\ sg.pc = "deferred"
    /\ sg' = Deferred(sg)
    /\ UNCHANGED signalRest

ResetInRead ==
    /\ Running /\ sg.pc = "reset"
    /\ sg' = ResetDone(sg, IF sg.err THEN "fatal" ELSE "mainnotify")
    /\ UNCHANGED signalRest

LogFatal ==
    /\ Running /\ sg.pc = "fatal"
    /\ sg' = [sg EXCEPT !.exited = "fatal"]
    /\ UNCHANGED signalRest

NotifyInMain ==
    /\ Running /\ sg.pc = "mainnotify"
    /\ sg' = Notified(sg, 2, "migrating")
    /\ UNCHANGED signalRest

Migrated ==
    /\ Running /\ sg.pc = "migrating"
    /\ \E outcome \in MigrationOutcomes : sg' = Migrating(sg, outcome)
    /\ UNCHANGED signalRest

ResetInMain ==
    /\ Running /\ sg.pc = "mainreset"
    /\ sg' = ResetDone(sg, "mainremove")
    /\ UNCHANGED signalRest

RemoveInMain ==
    /\ Running /\ sg.pc = "mainremove"
    /\ sg' = RemovedAtEnd(sg)
    /\ UNCHANGED signalRest

Interrupt ==
    /\ Running /\ sg.pc # "tempdir" /\ sg.ints < MaxInterrupts
    /\ sg' = Interrupted(sg)
    /\ UNCHANGED signalRest

Receive ==
    /\ Running
    /\ \E n \in Listeners :
         /\ sg.l[n] = "waiting" /\ sg.c[n]
         /\ sg' = Received(sg, n)
    /\ UNCHANGED signalRest

ListenerResets ==
    /\ Running
    /\ \E n \in Listeners :
         /\ sg.l[n] = "reset"
         /\ sg' = ListenerReset(sg, n)
    /\ UNCHANGED signalRest

ListenerChecks ==
    /\ Running
    /\ \E n \in Listeners :
         /\ sg.l[n] = "check"
         /\ \E v \in Seen(sg, n) : sg' = Checked(sg, n, v)
    /\ UNCHANGED signalRest

ListenerRemoves ==
    /\ Running
    /\ \E n \in Listeners :
         /\ sg.l[n] = "remove"
         /\ sg' = ListenerRemoved(sg, n)
    /\ UNCHANGED signalRest

ListenerExits ==
    /\ Running
    /\ \E n \in Listeners :
         /\ sg.l[n] = "exit"
         /\ sg' = ListenerExited(sg, n)
    /\ UNCHANGED signalRest

NextSignal ==
    \/ TempDir
    \/ NotifyInRead
    \/ Unarchive
    \/ ReturnFromRead
    \/ DeferredCleanup
    \/ ResetInRead
    \/ LogFatal
    \/ NotifyInMain
    \/ Migrated
    \/ ResetInMain
    \/ RemoveInMain
    \/ Interrupt
    \/ Receive
    \/ ListenerResets
    \/ ListenerChecks
    \/ ListenerRemoves
    \/ ListenerExits

SpecSignal == InitSignal /\ [][NextSignal]_vars

(* Listener n is live: it has not ended, and it is the one interrupts are  *)
(* sent to, or has an interrupt to deal with.                              *)
Live(n) ==
    /\ sg.l[n] \notin {"none", "done"}
    /\ sg.handler = n \/ sg.c[n] \/ sg.l[n] # "waiting"

(* C16 as stated: the temporary-directory path a listener reads is never   *)
(* written by the main flow while that listener can still run, so no run   *)
(* has both the write and the listener's read with nothing ordering them.  *)
C16_NoSharedWrite == ~(sg.written /\ sg.read[1])

C16_Witness ==
    /\ sg.written
    /\ sg.read[1]
    /\ sg.tempDir = ""
    /\ sg.l[1] = "done"
    /\ sg.dir
    /\ sg.exited = "fatal"

(* C17 as stated: at most one listener is live at any time; an interrupt   *)
(* delivered once the temporary directory exists leads to the directory    *)
(* being removed and then to the exit of the process: the process is not   *)
(* killed with the directory in place, and a listener that has dealt with  *)
(* the interrupt has removed the directory and ended the process.          *)
C17_OneListenerCleansUp ==
    /\ Cardinality({n \in Listeners : Live(n)}) <= 1
    /\ sg.exited = "killed" => ~sg.dir
    /\ \A n \in Listeners : sg.l[n] = "done" => ~sg.dir /\ sg.exited = "exit"

(* What the code does once main's listener is the one that receives the    *)
(* interrupt: it removes the directory and exits.                          *)
C17_MainListenerCleansUp ==
    sg.l[2] = "done" => ~sg.dir /\ sg.exited = "exit"

C17_Witness ==
    /\ sg.exited = "killed"
    /\ sg.dir
    /\ sg.pc = "mainnotify"
    /\ sg.ints = 1

(* C24 as stated: when readLHExport fails after it created the temporary   *)
(* directory, the directory has been removed by the time the error is      *)
(* returned to main.                                                       *)
C24_RemovedOnFailure ==
    (sg.pc = "fatal" /\ sg.err) => ~sg.dir

(* What the code does: the return statement sets tempDir to "" before the  *)
(* deferred cleanup runs, so without an interrupt a failure after the      *)
(* directory was created leaves the directory in place.                    *)
C24_LeftOnFailure ==
    (sg.pc = "fatal" /\ sg.err /\ sg.written /\ sg.ints = 0) => sg.dir

(* The extraction failed, no interrupt: the error is back in main and the  *)
(* directory is there.                                                     *)
C24_Witness ==
    /\ sg.pc = "fatal"
    /\ sg.err
    /\ sg.written
    /\ sg.tempDir = ""
    /\ sg.ints = 0
    /\ sg.dir

MainReached == sg.pc \in {"mainnotify", "migrating", "mainreset", "mainremove", "end"}

(* C25 as stated: after a successful readLHExport, however main ends       *)
(* (completion, -delete mode, a fatal error), the temporary directory has  *)
(* been removed when the process ends.                                     *)
C25_RemovedAtExit ==
    (MainReached /\ sg.exited \in {"returned", "fatal"}) => ~sg.dir

(* What the code does: the directory is removed when main returns.         *)
C25_RemovedAtReturn ==
    sg.exited = "returned" => ~sg.dir

(* log.Fatal in the body of main, no interrupt: the process has ended and  *)
(* the directory is there.                                                 *)
C25_Witness ==
    /\ sg.pc = "migrating"
    /\ sg.exited = "fatal"
    /\ ~sg.err
    /\ sg.ints = 0
    /\ sg.dir

-----------------------------------------------------------------------------
(* filename (lh): the name of the temporary file an entity is edited in,   *)
(* derived from the entity's title.  A Go string is a sequence of bytes:   *)
(* an ASCII character is one byte, written as itself; a byte of a longer   *)
(* UTF-8 encoding is written as its two hexadecimal digits.                *)

NameLimit == 20
MaxHead == 1
MaxTail == 2

(* The characters of the titles: an upper-case and a lower-case letter, a  *)
(* hyphen, a space, a punctuation mark, and an upper-case letter encoded   *)
(* on two bytes.                                                           *)
Runes == {"A", "b", "-", " ", "!", "E-acute"}

UTF8(r) == IF r = "E-acute" THEN <<"C3", "89">> ELSE <<r>>

RECURSIVE Encode(_)
Encode(word) ==
    IF word = <<>> THEN <<>> ELSE UTF8(Head(word)) \o Encode(Tail(word))

Words(n) == UNION {[1..k -> Runes] : k \in 0..n}

Repeat(r, n) == [i \in 1..n |-> r]

(* The titles: a few characters, a run of one character that is empty or   *)
(* reaches the limit, and a few characters more.                           *)
Pads == {0} \cup ((NameLimit - MaxTail - 1)..NameLimit)

Titles ==
    {Encode(h \o Repeat(r, n) \o t) :
        h \in Words(MaxHead), r \in {"b", "-", "E-acute"}, n \in Pads, t \in Words(MaxTail)}

(* if len(name) > 20 { name = name[:20] }                                  *)
Truncated(name) ==
    IF Len(name) > NameLimit THEN SubSeq(name, 1, NameLimit) ELSE name

RECURSIVE TrimLeft(_, _)
TrimLeft(s, cutset) ==
    IF s # <<>> /\ Head(s) \in cutset THEN TrimLeft(Tail(s), cutset) ELSE s

(* strings.TrimRight                                                       *)
RECURSIVE TrimRight(_, _)
TrimRight(s, cutset) ==
    IF s # <<>> /\ s[Len(s)] \in cutset
    THEN TrimRight(SubSeq(s, 1, Len(s) - 1), cutset)
    ELSE s

(* strings.TrimSpace                                                       *)
TrimSpace(s) == TrimRight(TrimLeft(s, {" "}), {" "})

(* strings.ToLower on bytes: a character is decoded, mapped, and encoded   *)
(* again; a byte that decodes to no character (the first byte of a         *)
(* character cut by the truncation, or a continuation byte on its own)     *)
(* becomes U+FFFD, three bytes.                                            *)
RECURSIVE ToLowerUTF8(_)
ToLowerUTF8(s) ==
    IF s = <<>> THEN <<>>
    ELSE IF Head(s) = "C3"
    THEN IF Len(s) >= 2 /\ s[2] \in {"89", "A9"}
         THEN <<"C3", "A9">> \o ToLowerUTF8(SubSeq(s, 3, Len(s)))
         ELSE <<"EF", "BF", "BD">> \o ToLowerUTF8(Tail(s))
    ELSE IF Head(s) \in {"89", "A9"}
    THEN <<"EF", "BF", "BD">> \o ToLowerUTF8(Tail(s))
    ELSE <<LowerChar(Head(s))>> \o ToLowerUTF8(Tail(s))

(* The bytes of the character class [-a-z0-9_], and the other bytes.       *)
WordBytes ==
    {"-", "_"} \cup Digits \cup
    {"a", "b", "c", "d", "e", "f", "g", "h", "i", "j", "k", "l", "m",
     "n", "o", "p", "q", "r", "s", "t", "u", "v", "w", "x", "y", "z"}

OtherBytes ==
    {"A", "B", "C", " ", "!", ".", "C3", "89", "A9", "EF", "BF", "BD"}

(* Mutant: every matching byte is replaced on its own.                     *)
RECURSIVE ReplaceEach(_, _, _)
ReplaceEach(s, class, sep) ==
    IF s = <<>> THEN <<>>
    ELSE IF Head(s) \in class THEN <<sep>> \o ReplaceEach(Tail(s), class, sep)
    ELSE <<Head(s)>> \o ReplaceEach(Tail(s), class, sep)

(* regexp.ReplaceAllString for the expression `class+`: every maximal run  *)
(* of bytes of the class is replaced by sep.                               *)
RECURSIVE ReplaceRuns(_, _, _)
ReplaceRuns(s, class, sep) ==
    IF s = <<>> THEN <<>>
    ELSE IF Head(s) \in class
    THEN <<sep>> \o ReplaceRuns(TrimLeft(s, class), class, sep)
    ELSE <<Head(s)>> \o ReplaceRuns(Tail(s), class, sep)

filename(name) ==
    TrimRight(
        ReplaceRuns(
            ReplaceRuns(ToLowerUTF8(TrimSpace(Truncated(name))), OtherBytes, "-"),
            {"-"}, "-"),
        {"-"})

InitFilename ==
    /\ ClientIdle
    /\ ExportOff /\ MigrateOff /\ DeleteOff /\ SignalOff /\ LoadOff
    /\ ConvertOff /\ ArchiveOff /\ LabelsOff /\ ReplayOff /\ BodyOff
    /\ \E name \in Titles : fn = [FilenameIdle EXCEPT !.pc = "call", !.name = name]

Filename ==
    /\ fn.pc = "call"
    /\ fn' = [fn EXCEPT !.pc = "returned", !.out = filename(fn.name)]
    /\ UNCHANGED filenameRest

NextFilename == Filename

SpecFilename == InitFilename /\ [][NextFilename]_vars

(* An upper-case letter at position i of s.                                *)
UpperAt(s, i) ==
    \/ s[i] \in {"A", "B", "C"}
    \/ s[i] = "C3" /\ i < Len(s) /\ s[i + 1] = "89"

(* The number of characters of s: the bytes that start one.                *)
Characters(s) ==
    Cardinality({i \in 1..Len(s) : s[i] \notin {"89", "A9", "BF", "BD"}})

(* C18: for every title, the name filename returns has at most 20          *)
(* characters, no upper-case letter, no two consecutive hyphens and no     *)
(* hyphen at its end.                                                      *)
C18_FilenameShape ==
    fn.pc = "returned" =>
        /\ Characters(fn.out) <= NameLimit
        /\ Len(fn.out) <= NameLimit
        /\ \A i \in 1..Len(fn.out) : ~UpperAt(fn.out, i)
        /\ \A i \in 1..(Len(fn.out) - 1) : ~(fn.out[i] = "-" /\ fn.out[i + 1] = "-")
        /\ fn.out = <<>> \/ fn.out[Len(fn.out)] # "-"

(* A title of more than 20 bytes with upper-case letters, a run of         *)
(* hyphens and a character cut in two by the truncation.                   *)
C18_Witness ==
    /\ fn.pc = "returned"
    /\ fn.name = Encode(<<"A">> \o Repeat("-", 18) \o <<"E-acute", "!">>)
    /\ fn.out = <<"a">>

-----------------------------------------------------------------------------
(* readLHExport after the extraction: the user directories, then for each  *)
(* project directory its milestone files and ticket directories, each list *)
(* sorted once it is read; then the loops of main over the lists.  One     *)
(* step is one directory entry read, the end of one loop with the sort     *)
(* that follows it, or one iteration of a loop of main.  An entity is      *)
(* reduced to the identifier decoded from its JSON file.                   *)

MaxEntries == 4
MaxID == 2

IDs == 1..MaxID

NoProject == [ID |-> 0, milestones |-> <<>>, tickets |-> <<>>]

NothingSeen == [users |-> <<>>, projects |-> <<>>, milestones |-> <<>>, tickets |-> <<>>]

(* The field the list is sorted by: Number for a ticket, ID otherwise.     *)
Key(x) == IF "Number" \in DOMAIN x THEN x.Number ELSE x.ID

(* The orders of a list.                                                   *)
Orders(list) ==
    IF list = <<>> THEN {<<>>}
    ELSE {[i \in 1..Len(list) |-> list[f[i]]] : f \in Permutations(1..Len(list))}

(* Mutant: the list is left in the order it was read in.                   *)
Unsorted(list) == {list}

(* sort.Slice(list, func(i, j int) bool { return list[i].ID < list[j].ID }) *)
(* the sort is not stable: any order of the list in which no element is    *)
(* less than an element before it.                                         *)
SortSlice(list) ==
    {l \in Orders(list) :
        \A i \in 1..Len(l), j \in 1..Len(l) : i < j => ~(Key(l[j]) < Key(l[i]))}

(* The list came out of the sort in another order than it was read in.     *)
Reordered(s, name, before, after) ==
    IF before # after THEN [s EXCEPT !.reordered = @ \cup {name}] ELSE s

(* e.users.list = append(e.users.list, u)                                  *)
UserRead(s, id) ==
    [s EXCEPT !.n = @ + 1, !.users = Append(@, [ID |-> id])]

UsersSorted(s, l) ==
    Reordered([s EXCEPT !.pc = "projects", !.users = l], "users", s.users, l)

(* p := &lhProject{...}; dec.Decode(p.Project)                             *)
ProjectRead(s, id) ==
    [s EXCEPT !.pc = "milestones", !.n = @ + 1, !.cur = [NoProject EXCEPT !.ID = id]]

(* p.milestones.list = append(p.milestones.list, m)                        *)
MilestoneRead(s, id) ==
    [s EXCEPT !.n = @ + 1, !.cur.milestones = Append(@, [ID |-> id])]

MilestonesSorted(s, l) ==
    Reordered([s EXCEPT !.pc = "tickets", !.cur.milestones = l],
              "milestones", s.cur.milestones, l)

(* p.tickets.list = append(p.tickets.list, t)                              *)
TicketRead(s, number) ==
    [s EXCEPT !.n = @ + 1, !.cur.tickets = Append(@, [Number |-> number])]

(* The sort of the tickets and e.projects.list = append(e.projects.list, p) *)
ProjectAppended(s, l) ==
    Reordered([s EXCEPT !.pc = "projects", !.cur = NoProject,
                        !.projects = Append(@, [s.cur EXCEPT !.tickets = l])],
              "tickets", s.cur.tickets, l)

(* The sort of the projects and `return e, tempDir, nil`.                  *)
ProjectsSorted(s, l) ==
    Reordered([s EXCEPT !.pc = "replay", !.projects = l], "projects", s.projects, l)

(* return nil, "", err                                                     *)
LoadFailed(s) == [pc |-> "failed", n |-> s.n, users |-> <<>>, projects |-> <<>>,
                  cur |-> NoProject, reordered |-> {}, seen |-> NothingSeen, p |-> 0]

(* for _, lhUser := range exp.users.list                                   *)
UserVisited(s) ==
    [s EXCEPT !.seen.users = Append(@, s.users[Len(@) + 1].ID)]

(* for _, lhProject := range exp.projects.list                             *)
ProjectVisited(s) ==
    [s EXCEPT !.p = @ + 1,
              !.seen = [users |-> s.seen.users,
                        projects |-> Append(s.seen.projects, s.projects[s.p + 1].ID),
                        milestones |-> <<>>, tickets |-> <<>>]]

(* for _, lhMilestone := range lhProject.milestones.list                   *)
MilestoneVisited(s) ==
    [s EXCEPT !.seen.milestones = Append(@, s.projects[s.p].milestones[Len(@) + 1].ID)]

(* for _, lhTicket := range lhProject.tickets.list                         *)
TicketVisited(s) ==
    [s EXCEPT !.seen.tickets = Append(@, s.projects[s.p].tickets[Len(@) + 1].Number)]

(* The loops of the current project have ended.                            *)
ProjectReplayed(s) ==
    IF s.p = 0 THEN TRUE
    ELSE /\ Len(s.seen.milestones) = Len(s.projects[s.p].milestones)
         /\ Len(s.seen.tickets) = Len(s.projects[s.p].tickets)

InitLoad ==
    /\ ClientIdle
    /\ ExportOff /\ MigrateOff /\ DeleteOff /\ SignalOff /\ FilenameOff
    /\ ConvertOff /\ ArchiveOff /\ LabelsOff /\ ReplayOff /\ BodyOff
    /\ ld = [LoadIdle EXCEPT !.pc = "users"]

ReadUser ==
    /\ ld.pc = "users" /\ ld.n < MaxEntries
    /\ \E id \in IDs : ld' = UserRead(ld, id)
    /\ UNCHANGED loadRest

SortUsers ==
    /\ ld.pc = "users"
    /\ \E l \in SortSlice(ld.users) : ld' = UsersSorted(ld, l)
    /\ UNCHANGED loadRest

ReadProject ==
    /\ ld.pc = "projects" /\ ld.n < MaxEntries
    /\ \E id \in IDs : ld' = ProjectRead(ld, id)
    /\ UNCHANGED loadRest

ReadMilestone ==
    /\ ld.pc = "milestones" /\ ld.n < MaxEntries
    /\ \E id \in IDs : ld' = MilestoneRead(ld, id)
    /\ UNCHANGED loadRest

SortMilestones ==
    /\ ld.pc = "milestones"
    /\ \E l \in SortSlice(ld.cur.milestones) : ld' = MilestonesSorted(ld, l)
    /\ UNCHANGED loadRest

ReadTicket ==
    /\ ld.pc = "tickets" /\ ld.n < MaxEntries
    /\ \E number \in IDs : ld' = TicketRead(ld, number)
    /\ UNCHANGED loadRest

AppendProject ==
    /\ ld.pc = "tickets"
    /\ \E l \in SortSlice(ld.cur.tickets) : ld' = ProjectAppended(ld, l)
    /\ UNCHANGED loadRest

SortProjects ==
    /\ ld.pc = "projects"
    /\ \E l \in SortSlice(ld.projects) : ld' = ProjectsSorted(ld, l)
    /\ UNCHANGED loadRest

(* A file that cannot be opened or decoded.                                *)
LoadFails ==
    /\ ld.pc \in {"users", "projects", "milestones", "tickets"}
    /\ ld' = LoadFailed(ld)
    /\ UNCHANGED loadRest

VisitUser ==
    /\ ld.pc = "replay" /\ ld.p = 0
    /\ Len(ld.seen.users) < Len(ld.users)
    /\ ld' = UserVisited(ld)
    /\ UNCHANGED loadRest

VisitProject ==
    /\ ld.pc = "replay"
    /\ Len(ld.seen.users) = Len(ld.users)
    /\ ProjectReplayed(ld)
    /\ ld.p < Len(ld.projects)
    /\ ld' = ProjectVisited(ld)
    /\ UNCHANGED loadRest

VisitMilestone ==
    /\ ld.pc = "replay" /\ ld.p > 0
    /\ ld.seen.tickets = <<>>
    /\ Len(ld.seen.milestones) < Len(ld.projects[ld.p].milestones)
    /\ ld' = MilestoneVisited(ld)
    /\ UNCHANGED loadRest

VisitTicket ==
    /\ ld.pc = "replay" /\ ld.p > 0
    /\ Len(ld.seen.milestones) = Len(ld.projects[ld.p].milestones)
    /\ Len(ld.seen.tickets) < Len(ld.projects[ld.p].tickets)
    /\ ld' = TicketVisited(ld)
    /\ UNCHANGED loadRest

ReplayEnds ==
    /\ ld.pc = "replay"
    /\ Len(ld.seen.users) = Len(ld.users)
    /\ ProjectReplayed(ld)
    /\ ld.p = Len(ld.projects)
    /\ ld' = [ld EXCEPT !.pc = "done"]
    /\ UNCHANGED loadRest

NextLoad ==
    \/ ReadUser
    \/ SortUsers
    \/ ReadProject
    \/ ReadMilestone
    \/ SortMilestones
    \/ ReadTicket
    \/ AppendProject
    \/ SortProjects
    \/ LoadFails
    \/ VisitUser
    \/ VisitProject
    \/ VisitMilestone
    \/ VisitTicket
    \/ ReplayEnds

SpecLoad == InitLoad /\ [][NextLoad]_vars

Loaded == ld.pc \in {"replay", "done"}

Keys(l) == [i \in 1..Len(l) |-> Key(l[i])]

NonDescending(l) == \A i \in 1..(Len(l) - 1) : Key(l[i]) <= Key(l[i + 1])

StrictlyAscending(l) == \A i \in 1..(Len(l) - 1) : Key(l[i]) < Key(l[i + 1])

IsPrefix(s, l) == Len(s) <= Len(l) /\ s = SubSeq(l, 1, Len(s))

RECURSIVE EntriesOf(_)
EntriesOf(ps) ==
    IF ps = <<>> THEN 0
    ELSE 1 + Len(Head(ps).milestones) + Len(Head(ps).tickets) + EntriesOf(Tail(ps))

(* The loops of main have visited the lists from their first element on,   *)
(* in the order of the lists, and at the end all of them.                  *)
ReplayInOrder ==
    /\ IsPrefix(ld.seen.users, Keys(ld.users))
    /\ IsPrefix(ld.seen.projects, Keys(ld.projects))
    /\ Len(ld.seen.projects) = ld.p
    /\ ld.p > 0 =>
         /\ IsPrefix(ld.seen.milestones, Keys(ld.projects[ld.p].milestones))
         /\ IsPrefix(ld.seen.tickets, Keys(ld.projects[ld.p].tickets))
    /\ ld.pc = "done" =>
         /\ ld.seen.users = Keys(ld.users)
         /\ ld.seen.projects = Keys(ld.projects)

(* C19 as stated: after the load the users and the projects are in         *)
(* strictly ascending ID order, each project's milestones in ascending ID  *)
(* order and its tickets in ascending number order, and the replay visits  *)
(* them in that order.                                                     *)
C19_StrictlyAscending ==
    Loaded =>
        /\ StrictlyAscending(ld.users)
        /\ StrictlyAscending(ld.projects)
        /\ \A i \in 1..Len(ld.projects) :
             /\ NonDescending(ld.projects[i].milestones)
             /\ NonDescending(ld.projects[i].tickets)
        /\ ReplayInOrder

(* C19: after the load every entry read is in its list, the users and the  *)
(* projects are in ascending ID order in which entries with the same ID    *)
(* follow one another, each project's milestones are in ascending ID       *)
(* order and its tickets in ascending number order, whatever order the     *)
(* entries were read in; the replay visits them in that order.             *)
C19_LoadedAscending ==
    Loaded =>
        /\ Len(ld.users) + EntriesOf(ld.projects) = ld.n
        /\ NonDescending(ld.users)
        /\ NonDescending(ld.projects)
        /\ \A i \in 1..Len(ld.projects) :
             /\ NonDescending(ld.projects[i].milestones)
             /\ NonDescending(ld.projects[i].tickets)
        /\ ReplayInOrder

(* Two projects read in descending ID order, the second with two tickets   *)
(* read in descending number order, all replayed.                          *)
C19_Witness ==
    /\ ld.pc = "done"
    /\ {"projects", "tickets"} \subseteq ld.reordered
    /\ ld.seen.projects = <<1, 2>>
    /\ ld.seen.tickets = <<>>
    /\ ld.projects[1].tickets = <<[Number |-> 1], [Number |-> 2]>>

-----------------------------------------------------------------------------
(* ListAll and the Page option.                                            *)

(* Two option values that differ at most in Page.                          *)
DifferOnlyInPage(a, b) ==
    a.nil = b.nil /\ a.Query = b.Query /\ a.Limit = b.Limit

(* What ListAll returns on the exchanges xs: the error of the last one, or *)
(* the pages before the last, empty, one.                                  *)
ListAllResult(xs) ==
    IF Failed(xs[Len(xs)])
    THEN Returned(xs[Len(xs)].err, TRUE, ZeroEnt(kind), <<>>)
    ELSE Returned(NoErr, FALSE, ZeroEnt(kind), Concatenation(SubSeq(xs, 1, Len(xs) - 1)))

(* C20: ListAll ignores opts.Page.  Whatever option value differing from   *)
(* the caller's only in Page is taken in its place, the requests issued    *)
(* are the ones List builds from that value's other options for pages 1,   *)
(* 2, 3, ... in order, and the result is the one the responses to these    *)
(* requests determine.                                                     *)
C20_ListAllIgnoresPage ==
    (call.op = "ListAll" /\ pc \in {"listall", "done"}) =>
        /\ \A o \in ListOptions :
             DifferOnlyInPage(o, call.opts) =>
                 \A i \in 1..Len(log) :
                     log[i].req = ListRequest(Opts(o.Query, o.Limit, i))
        /\ pc = "listall" => realOpts.Page = Len(log) + 1
        /\ pc = "done" => Len(log) >= 1 /\ ret = ListAllResult(log)

(* A ListAll called with Page = 2 that asked for page 1 first and returned *)
(* the items of more than one page.                                        *)
C20_Witness ==
    /\ ListAllReturned /\ ret.err = NoErr
    /\ call.opts.Page = 2
    /\ Len(log) >= 3
    /\ log[1].req.page = 1
    /\ Len(ret.list) >= 2

-----------------------------------------------------------------------------
(* The conversion of a ticket and of a ticket version to the options of    *)
(* an issue call (lhTicketToCreateIssue, lhTicketVersionToUpdateIssue).    *)
(* usersMap and milestonesMap give, for a Lighthouse ID, the GitLab user   *)
(* or milestone; usersMap is first read from a file, in which an entry     *)
(* may be null.  A ticket and a version are reduced to their assigned-user *)
(* and milestone IDs.                                                      *)

MaxSource == 2

Sources == 1..MaxSource

(* The ID GitLab gave to what was created for the Lighthouse ID id.        *)
TargetOf(id) == MaxSource + id

Absent == [ok |-> FALSE, nil |-> TRUE, ID |-> 0]

NullEntry == [ok |-> TRUE, nil |-> TRUE, ID |-> 0]

EntryFor(id) == [ok |-> TRUE, nil |-> FALSE, ID |-> TargetOf(id)]

NotFound == [ok |-> FALSE, ID |-> 0]

(* A *int: nil, or a pointer to v.                                         *)
NilInt == [nil |-> TRUE, v |-> 0]

IntPtr(v) == [nil |-> FALSE, v |-> v]

NoConversion == [op |-> "none", src |-> [AssignedUserID |-> 0, MilestoneID |-> 0],
                 AssigneeIDs |-> <<>>, MilestoneID |-> NilInt]

(* Mutant: the Lighthouse ID stands in for a milestone that was not mapped. *)
milestoneByIDOrSource(m, id) ==
    IF id = 0 THEN NotFound
    ELSE IF ~m[id].ok \/ m[id].nil THEN [ok |-> TRUE, ID |-> id]
    ELSE [ok |-> TRUE, ID |-> m[id].ID]

milestoneByID(m, id) ==
    IF id = 0 THEN NotFound
    ELSE IF ~m[id].ok \/ m[id].nil THEN NotFound
    ELSE [ok |-> TRUE, ID |-> m[id].ID]

userByID(m, id) ==
    IF id = 0 THEN NotFound
    ELSE IF ~m[id].ok \/ m[id].nil THEN NotFound
    ELSE [ok |-> TRUE, ID |-> m[id].ID]

(* var assigneeIDs []int; if AssignedUserID == 0 { append 0 } else { u, ok *)
(* := userByID(...); if ok { append u.ID } }                               *)
AssigneeIDsOf(id, u) ==
    IF id = 0 THEN <<0>> ELSE IF u.ok THEN <<u.ID>> ELSE <<>>

(* var milestoneID *int, likewise.                                         *)
MilestoneIDOf(id, m) ==
    IF id = 0 THEN IntPtr(0) ELSE IF m.ok THEN IntPtr(m.ID) ELSE NilInt

lhTicketVersionToUpdateIssue(s, lhVersion) ==
    [op |-> "UpdateIssue",
     src |-> lhVersion,
     AssigneeIDs |-> AssigneeIDsOf(lhVersion.AssignedUserID,
                                   userByID(s.usersMap, lhVersion.AssignedUserID)),
     MilestoneID |-> MilestoneIDOf(lhVersion.MilestoneID,
                                   milestoneByID(s.milestonesMap, lhVersion.MilestoneID))]

(* The options computed from the ticket are replaced by those of its first *)
(* version when it has one.                                                *)
lhTicketToCreateIssue(s, lhTicket) ==
    IF Len(lhTicket.Versions) > 0
    THEN [lhTicketVersionToUpdateIssue(s, lhTicket.Versions[1]) EXCEPT !.op = "CreateIssue"]
    ELSE [op |-> "CreateIssue",
          src |-> [AssignedUserID |-> lhTicket.AssignedUserID,
                   MilestoneID |-> lhTicket.MilestoneID],
          AssigneeIDs |-> AssigneeIDsOf(lhTicket.AssignedUserID,
                                        userByID(s.usersMap, lhTicket.AssignedUserID)),
          MilestoneID |-> MilestoneIDOf(lhTicket.MilestoneID,
                                        milestoneByID(s.milestonesMap, lhTicket.MilestoneID))]

TicketVersions ==
    {[AssignedUserID |-> a, MilestoneID |-> m] : a \in 0..MaxSource, m \in 0..MaxSource}

(* The tickets: without versions, or with a first version; the IDs of a    *)
(* ticket that has versions are 0 or the largest ID.                       *)
ConvertedTickets ==
    {[AssignedUserID |-> a, MilestoneID |-> m, Versions |-> <<>>] :
        a \in 0..MaxSource, m \in 0..MaxSource}
    \cup
    {[AssignedUserID |-> a, MilestoneID |-> m, Versions |-> <<v>>] :
        a \in {0, MaxSource}, m \in {0, MaxSource}, v \in TicketVersions}

(* dec.Decode(&usersMap): the users file.                                  *)
UsersFiles == [Sources -> {Absent, NullEntry} \cup {EntryFor(id) : id \in Sources}]

InitConvert ==
    /\ ClientIdle
    /\ ExportOff /\ MigrateOff /\ DeleteOff /\ SignalOff /\ FilenameOff /\ LoadOff
    /\ ArchiveOff /\ LabelsOff /\ ReplayOff /\ BodyOff
    /\ \E f \in UsersFiles :
         cv = [pc |-> "run", usersMap |-> f,
               milestonesMap |-> [id \in Sources |-> Absent], call |-> NoConversion]

(* usersMap[lhUser.ID] = u                                                 *)
MapUser ==
    /\ cv.pc = "run"
    /\ \E id \in Sources :
         /\ cv.usersMap[id] # EntryFor(id)
         /\ cv' = [cv EXCEPT !.usersMap[id] = EntryFor(id), !.call = NoConversion]
    /\ UNCHANGED convertRest

(* milestonesMap[lhMilestone.ID] = m                                       *)
MapMilestone ==
    /\ cv.pc = "run"
    /\ \E id \in Sources :
         /\ cv.milestonesMap[id] # EntryFor(id)
         /\ cv' = [cv EXCEPT !.milestonesMap[id] = EntryFor(id), !.call = NoConversion]
    /\ UNCHANGED convertRest

(* issueOpt, options, ok := lhTicketToCreateIssue(lhTicket, stateKey)      *)
ConvertTicket ==
    /\ cv.pc = "run"
    /\ \E lhTicket \in ConvertedTickets :
         cv' = [cv EXCEPT !.call = lhTicketToCreateIssue(cv, lhTicket)]
    /\ UNCHANGED convertRest

(* issueOpt, options, ok := lhTicketVersionToUpdateIssue(lhVersion, ...)   *)
ConvertVersion ==
    /\ cv.pc = "run"
    /\ \E lhVersion \in TicketVersions :
         cv' = [cv EXCEPT !.call = lhTicketVersionToUpdateIssue(cv, lhVersion)]
    /\ UNCHANGED convertRest

NextConvert ==
    \/ MapUser
    \/ MapMilestone
    \/ ConvertTicket
    \/ ConvertVersion

SpecConvert == InitConvert /\ [][NextConvert]_vars

(* The table m has a target for the source ID id.                          *)
Mapped(m, id) == id # 0 /\ m[id].ok /\ ~m[id].nil

(* C21: in an issue create or update call, the assignee and the milestone  *)
(* are, for a source ID of 0, an explicit 0; for a source ID the mapping   *)
(* table has a target for, that target; and otherwise unset.  The source   *)
(* IDs of a create call are those of the ticket's first version when it    *)
(* has one, of the ticket otherwise.                                       *)
C21_MappedIDs ==
    cv.call.op \in {"CreateIssue", "UpdateIssue"} =>
        /\ cv.call.AssigneeIDs =
             (IF cv.call.src.AssignedUserID = 0 THEN <<0>>
              ELSE IF Mapped(cv.usersMap, cv.call.src.AssignedUserID)
              THEN <<cv.usersMap[cv.call.src.AssignedUserID].ID>>
              ELSE <<>>)
        /\ cv.call.MilestoneID =
             (IF cv.call.src.MilestoneID = 0 THEN IntPtr(0)
              ELSE IF Mapped(cv.milestonesMap, cv.call.src.MilestoneID)
              THEN IntPtr(cv.milestonesMap[cv.call.src.MilestoneID].ID)
              ELSE NilInt)

(* A create call for a ticket assigned to a user whose entry in the users  *)
(* file is null, in a milestone that was created before.                   *)
C21_Witness ==
    /\ cv.call.op = "CreateIssue"
    /\ cv.call.src = [AssignedUserID |-> 1, MilestoneID |-> 2]
    /\ cv.usersMap[1] = NullEntry
    /\ cv.call.AssigneeIDs = <<>>
    /\ cv.call.MilestoneID = IntPtr(TargetOf(2))

-----------------------------------------------------------------------------
(* Update and the caller's entity.                                         *)

(* C22: Update leaves the caller's entity unchanged.  When Update has      *)
(* returned, with or without an error, every field of the entity has the   *)
(* value it had when Update was called, whatever the response carried.     *)
C22_UpdateKeepsEntity ==
    UpdateReturned => \A f \in Fields(kind) : ent[f] = call.draft[f]

(* An Update that succeeded, whose response carried the stored entity with *)
(* a field that differs from the caller's.                                 *)
C22_Witness ==
    /\ UpdateReturned
    /\ ret.err = NoErr
    /\ \E f \in DOMAIN log[1].resp.obj : log[1].resp.obj[f] # call.draft[f]
    /\ ent = call.draft

-----------------------------------------------------------------------------
(* The archive of one project, for one kind of entity: the export writes   *)
(* each entity under a name computed by filename, the migration tool       *)
(* extracts the archive and reads the milestone files and the ticket       *)
(* directories back.  The directories of the kinds are apart from one      *)
(* another, so one kind is followed at a time.  An entity is reduced to    *)
(* what its name is made of: its ID (number, for a ticket) and permalink   *)
(* (name, for a bin), or its revision for a changeset.                     *)

MaxWritten == 2
MaxKey == 2

ArchiveKinds == {"bins", "changesets", "messages", "milestones", "tickets"}

(* One-digit and two-digit IDs.                                            *)
ArchiveIDs == (1..MaxKey) \cup {10 * k + 2 : k \in 1..MaxKey}

Extension == <<".", "j", "s", "o", "n">>

Permalinks ==
    {<<"b">>, <<"2", "-", "b">>, <<"A", " ", "b">>, Repeat("b", NameLimit)}

Revisions ==
    {<<"a", "b">>, <<"A", "b">>, Append(Repeat("b", NameLimit), "a"),
     Append(Repeat("b", NameLimit), "c")}

ArchiveEntities(k) ==
    IF k = "changesets"
    THEN {[ID |-> 0, Revision |-> r, Permalink |-> <<>>] : r \in Revisions}
    ELSE {[ID |-> id, Revision |-> <<>>, Permalink |-> p] :
             id \in ArchiveIDs, p \in Permalinks}

(* The name of the entity's archive entry under the directory of its kind: *)
(* filename(fmt.Sprintf("%d-%s.json", ID, Permalink)) for bins, messages   *)
(* and milestones, filename(fmt.Sprintf("%s.json", Revision)) for          *)
(* changesets; for tickets the directory                                   *)
(* filename(fmt.Sprintf("%d-%s", Number, Permalink)), which holds          *)
(* ticket.json.                                                            *)
EntryName(k, e) ==
    CASE k = "changesets" -> filename(e.Revision \o Extension)
      [] k = "tickets" -> filename(Itoa(e.ID) \o <<"-">> \o e.Permalink)
      [] OTHER -> filename(Itoa(e.ID) \o <<"-">> \o e.Permalink \o Extension)

HasSuffix(s, suffix) ==
    /\ Len(s) >= Len(suffix)
    /\ SubSeq(s, Len(s) - Len(suffix) + 1, Len(s)) = suffix

(* filepath.Glob(filepath.Join(dir, "milestones", "*.json")) and           *)
(* filepath.Glob(filepath.Join(dir, "tickets", "*")); the other            *)
(* directories are not read.                                               *)
Glob(k, names) ==
    CASE k = "milestones" -> {n \in names : HasSuffix(n, Extension)}
      [] k = "tickets" -> names
      [] OTHER -> {}

(* writeJSONFile: one more entry in the archive.                           *)
EntityWritten(s, e) ==
    [s EXCEPT !.written = @ \cup {e}]

(* tgz.Unarchive with OverwriteExisting: one file for each name; then the  *)
(* loops over the paths Glob returns, one list entry for each.             *)
ArchiveRead(s, names) ==
    [s EXCEPT !.pc = "read", !.files = names, !.loaded = Glob(s.kind, names)]

InitArchive ==
    /\ ClientIdle
    /\ ExportOff /\ MigrateOff /\ DeleteOff /\ SignalOff /\ FilenameOff /\ LoadOff
    /\ ConvertOff /\ LabelsOff /\ ReplayOff /\ BodyOff
    /\ \E k \in ArchiveKinds : ar = [ArchiveIdle EXCEPT !.pc = "export", !.kind = k]

(* One iteration of the export's loop over the entities of the kind: the   *)
(* server lists entities with different IDs (revisions).                   *)
WriteEntity ==
    /\ ar.pc = "export"
    /\ Cardinality(ar.written) < MaxWritten
    /\ \E e \in ArchiveEntities(ar.kind) :
         /\ \A w \in ar.written : w.ID # e.ID \/ w.Revision # e.Revision
         /\ ar' = EntityWritten(ar, e)
    /\ UNCHANGED archiveRest

ReadArchive ==
    /\ ar.pc = "export"
    /\ ar' = ArchiveRead(ar, {EntryName(ar.kind, e) : e \in ar.written})
    /\ UNCHANGED archiveRest

NextArchive ==
    \/ WriteEntity
    \/ ReadArchive

SpecArchive == InitArchive /\ [][NextArchive]_vars

(* C23 as stated: after readLHExport the project's milestone list has one  *)
(* entry per milestone the export wrote and its ticket list one entry per  *)
(* ticket written.                                                         *)
C23_AllReadBack ==
    (ar.pc = "read" /\ ar.kind \in {"milestones", "tickets"}) =>
        Cardinality(ar.loaded) = Cardinality(ar.written)

(* What the code does: every ticket written is read back, and no           *)
(* milestone is, since filename turns the dot of ".json" into a hyphen and *)
(* the reader looks for "*.json".                                          *)
C23_TicketsReadBack ==
    ar.pc = "read" =>
        /\ ar.kind = "tickets" => Cardinality(ar.loaded) = Cardinality(ar.written)
        /\ ar.kind = "milestones" => ar.loaded = {}

(* A milestone with a short permalink, written and not read back.          *)
C23_Witness ==
    /\ ar.pc = "read"
    /\ ar.kind = "milestones"
    /\ ar.written = {[ID |-> 1, Revision |-> <<>>, Permalink |-> <<"b">>]}
    /\ ar.files = {<<"1", "-", "b", "-", "j", "s", "o", "n">>}
    /\ ar.loaded = {}

(* C27 as stated: the entities of one kind the export writes for a project *)
(* go to different archive paths.                                          *)
C27_DistinctPaths ==
    \A a \in ar.written, b \in ar.written :
        a # b => EntryName(ar.kind, a) # EntryName(ar.kind, b)

(* What the code ensures: entities named after their ID (number) go to     *)
(* different paths; the name starts with the digits of the ID and a        *)
(* hyphen, or is the digits alone.                                         *)
C27_DistinctPathsByID ==
    ar.kind # "changesets" =>
        \A a \in ar.written, b \in ar.written :
            a # b => EntryName(ar.kind, a) # EntryName(ar.kind, b)

(* Two changesets whose revisions differ after the twentieth character,    *)
(* written to one path.                                                    *)
C27_Witness ==
    /\ ar.pc = "read"
    /\ ar.kind = "changesets"
    /\ Cardinality(ar.written) = 2
    /\ ar.files = {Repeat("b", NameLimit)}

-----------------------------------------------------------------------------
(* The labels of ticket states (lhtogitlab).  A project's open_states and  *)
(* closed_states are texts with one state definition to a line,            *)
(* "name/color # description"; a label is created for each definition,     *)
(* and every issue and issue version carries a label for its state.  A     *)
(* string is a sequence of characters, a text a sequence of lines (what    *)
(* strings.Split(text, "\n") returns).  The description of a label is left *)
(* out.                                                                    *)

MaxLines == 2

HexDigits ==
    {"0", "1", "2", "3", "4", "5", "6", "7", "8", "9",
     "a", "b", "c", "d", "e", "f", "A", "B", "C", "D", "E", "F"}

StateKeys == {<<"l", "h">>, <<"l", "h", ":", ":">>, <<"s">>}

StateLines ==
    {<<"n", "e", "w", "/", "f", "1", "7">>,
     <<" ", "o", "n", " ", "h", "o", "l", "d", " ", "/", "a", "a", "a", "a", "a", "a",
       " ", "#", " ", "c">>,
     <<"n", "/", "f">>,
     <<"#", " ", "c">>,
     <<" ", "/", "f", "f", "f">>,
     <<"n", "/", "b", "/", "c">>}

StateTexts == UNION {[1..n -> StateLines] : n \in 1..MaxLines}

(* The position of the first c in s, 0 when there is none.                 *)
IndexOf(s, c) ==
    IF \E i \in 1..Len(s) : s[i] = c
    THEN CHOOSE i \in 1..Len(s) : s[i] = c /\ \A j \in 1..(i - 1) : s[j] # c
    ELSE 0

(* The length of the longest run of hexadecimal digits s starts with.      *)
HexRun(s) ==
    CHOOSE n \in 0..Len(s) :
        /\ \A i \in 1..n : s[i] \in HexDigits
        /\ n = Len(s) \/ s[n + 1] \notin HexDigits

NoMatch == [ok |-> FALSE, name |-> <<>>, color |-> <<>>]

(* After the name and the slash: [0-9a-fA-F]+\s*(#...)?$                   *)
ColorMatch(name, rest, n) ==
    IF n = 0 THEN NoMatch
    ELSE IF TrimLeft(SubSeq(rest, n + 1, Len(rest)), {" "}) = <<>>
            \/ Head(TrimLeft(SubSeq(rest, n + 1, Len(rest)), {" "})) = "#"
         THEN [ok |-> TRUE, name |-> name, color |-> SubSeq(rest, 1, n)]
         ELSE NoMatch

(* lhStateDefinitionRegexp.FindStringSubmatch(line): the name is what      *)
(* stands before the first slash, one character at least.                  *)
StateDefinition(line, i) ==
    IF i < 2 THEN NoMatch
    ELSE ColorMatch(SubSeq(line, 1, i - 1), SubSeq(line, i + 1, Len(line)),
                    HexRun(SubSeq(line, i + 1, Len(line))))

DefaultColor == <<"#", "4", "2", "8", "B", "C", "A">>

LabelColor(c) ==
    IF Len(c) = 3 THEN <<"#", c[1], c[1], c[2], c[2], c[3], c[3]>>
    ELSE IF Len(c) = 6 THEN <<"#">> \o c
    ELSE DefaultColor

(* name = stateKey + strings.TrimSpace(m[i])                               *)
LabelName(stateKey, name) == stateKey \o TrimSpace(name)

RECURSIVE lhProjectStatesToCreateLabels(_, _)
lhProjectStatesToCreateLabels(text, stateKey) ==
    IF text = <<>> THEN <<>>
    ELSE IF StateDefinition(Head(text), IndexOf(Head(text), "/")).ok
         THEN <<[Name |-> LabelName(stateKey,
                              StateDefinition(Head(text), IndexOf(Head(text), "/")).name),
                 Color |-> LabelColor(
                              StateDefinition(Head(text), IndexOf(Head(text), "/")).color)]>>
              \o lhProjectStatesToCreateLabels(Tail(text), stateKey)
         ELSE lhProjectStatesToCreateLabels(Tail(text), stateKey)

(* The names of the states the text defines: a ticket's state is one of    *)
(* them.                                                                   *)
RECURSIVE StatesOf(_)
StatesOf(text) ==
    IF text = <<>> THEN {}
    ELSE (IF StateDefinition(Head(text), IndexOf(Head(text), "/")).ok
          THEN {TrimSpace(StateDefinition(Head(text), IndexOf(Head(text), "/")).name)}
          ELSE {}) \cup StatesOf(Tail(text))

(* strings.Join([]string{stateKey, State}, "::"), the last label of        *)
(* lhTicketToLabels and of lhTicketVersionToLabels.                        *)
StateLabel(stateKey, state) == stateKey \o <<":", ":">> \o state

LabelsCreated(s) ==
    [s EXCEPT !.pc = "created",
              !.opts = lhProjectStatesToCreateLabels(s.text, s.stateKey)]

StateLabelled(s, of, state) ==
    [s EXCEPT !.pc = "labelled", !.of = of, !.state = state,
              !.label = StateLabel(s.stateKey, state)]

InitLabels ==
    /\ ClientIdle
    /\ ExportOff /\ MigrateOff /\ DeleteOff /\ SignalOff /\ FilenameOff /\ LoadOff
    /\ ConvertOff /\ ArchiveOff /\ ReplayOff /\ BodyOff
    /\ \E k \in StateKeys, t \in StateTexts :
         lb = [LabelsIdle EXCEPT !.pc = "project", !.stateKey = k, !.text = t]

(* lhProjectToCreateLabels on the open (or the closed) states.             *)
CreateLabels ==
    /\ lb.pc = "project"
    /\ lb' = LabelsCreated(lb)
    /\ UNCHANGED labelsRest

(* lhTicketToLabels for a ticket in one of the project's states.           *)
LabelTicket ==
    /\ lb.pc = "created"
    /\ \E state \in StatesOf(lb.text) : lb' = StateLabelled(lb, "ticket", state)
    /\ UNCHANGED labelsRest

(* lhTicketVersionToLabels for a version in one of the project's states.   *)
LabelVersion ==
    /\ lb.pc = "created"
    /\ \E state \in StatesOf(lb.text) : lb' = StateLabelled(lb, "version", state)
    /\ UNCHANGED labelsRest

NextLabels ==
    \/ CreateLabels
    \/ LabelTicket
    \/ LabelVersion

SpecLabels == InitLabels /\ [][NextLabels]_vars

CreatedNames == {lb.opts[i].Name : i \in 1..Len(lb.opts)}

(* C26 as stated: the label attached to an issue or issue version in a     *)
(* state the project defines is the name of a label created for the        *)
(* project.                                                                *)
C26_StateLabelCreated ==
    lb.pc = "labelled" => lb.label \in CreatedNames

(* What the code does: the label created for a state is the key followed   *)
(* by the state, the label attached is the key, "::" and the state.        *)
C26_StateLabelNames ==
    lb.pc = "labelled" =>
        /\ lb.stateKey \o lb.state \in CreatedNames
        /\ lb.label = lb.stateKey \o <<":", ":">> \o lb.state

(* Key lh, state new: the label lhnew is created, lh::new is attached.     *)
C26_Witness ==
    /\ lb.pc = "labelled"
    /\ lb.stateKey = <<"l", "h">>
    /\ lb.text = <<<<"n", "e", "w", "/", "f", "1", "7">>>>
    /\ lb.opts = <<[Name |-> <<"l", "h", "n", "e", "w">>,
                    Color |-> <<"#", "f", "f", "1", "1", "7", "7">>]>>
    /\ lb.of = "ticket"
    /\ lb.label = <<"l", "h", ":", ":", "n", "e", "w">>

-----------------------------------------------------------------------------
(* The replay of a ticket's versions (lhtogitlab, main): for each version  *)
(* the issue is updated, the attachments created with the version are      *)
(* uploaded, and a note is posted.  created_at is a *time.Time: nil when   *)
(* the archive has no created_at (or a null) for the ticket, the version   *)
(* or the attachment.                                                      *)

MaxTime == 2

NilTime == 0

Timestamps == {NilTime} \cup (1..MaxTime)

ReplayedTickets == [CreatedAt : Timestamps]

(* A version: its created_at, and whether its body is empty.               *)
ReplayedVersions ==
    UNION {[1..n -> [CreatedAt : Timestamps, Body : BOOLEAN]] : n \in 0..MaxVersions}

ReplayedAttachments ==
    {<<>>} \cup {<<[CreatedAt |-> t]>> : t \in Timestamps}

(* The attachments uploaded with a version: those whose created_at and the *)
(* version's are both present and equal.                                   *)
UploadedWith(attachments, lhVersion) ==
    Cardinality({k \in 1..Len(attachments) :
        ~(attachments[k].CreatedAt = NilTime \/ lhVersion.CreatedAt = NilTime
          \/ attachments[k].CreatedAt # lhVersion.CreatedAt)})

(* lhTicketVersionToUpdateIssue and git.Issues.UpdateIssue: no created_at  *)
(* is read.                                                                *)
VersionUpdated(s) == [s EXCEPT !.pc = "files"]

VersionFilesUploaded(s) ==
    [s EXCEPT !.pc = "note", !.pfs = UploadedWith(s.attachments, s.versions[s.i])]

(* lhTicketVersionToCreateIssueNote: the note is posted when its body is   *)
(* not empty; the body of the version is left out of the note of the       *)
(* current version.                                                        *)
NoteWritten(lhVersion, currentVersion, pfs) ==
    IF (~currentVersion /\ lhVersion.Body) \/ pfs > 0
    THEN <<[CreatedAt |-> lhVersion.CreatedAt, current |-> currentVersion, pfs |-> pfs]>>
    ELSE <<>>

(* lhVersion.CreatedAt.Equal of lhTicket.CreatedAt: both pointers are      *)
(* dereferenced; a nil one is a run-time panic, which ends the process.    *)
VersionNoted(s, lhVersion) ==
    IF lhVersion.CreatedAt = NilTime \/ s.ticket.CreatedAt = NilTime
    THEN [s EXCEPT !.pc = "panic"]
    ELSE [s EXCEPT !.pc = "update", !.i = @ + 1,
                   !.notes = @ \o NoteWritten(lhVersion,
                                 lhVersion.CreatedAt = s.ticket.CreatedAt, s.pfs)]

InitReplay ==
    /\ ClientIdle
    /\ ExportOff /\ MigrateOff /\ DeleteOff /\ SignalOff /\ FilenameOff /\ LoadOff
    /\ ConvertOff /\ ArchiveOff /\ LabelsOff /\ BodyOff
    /\ \E t \in ReplayedTickets, v \in ReplayedVersions, a \in ReplayedAttachments :
         vr = [ReplayIdle EXCEPT !.pc = "update", !.ticket = t, !.versions = v,
                                 !.attachments = a, !.i = 1]

UpdateVersion ==
    /\ vr.pc = "update" /\ vr.i <= Len(vr.versions)
    /\ vr' = VersionUpdated(vr)
    /\ UNCHANGED replayRest

UploadVersionFiles ==
    /\ vr.pc = "files"
    /\ vr' = VersionFilesUploaded(vr)
    /\ UNCHANGED replayRest

NoteVersion ==
    /\ vr.pc = "note"
    /\ vr' = VersionNoted(vr, vr.versions[vr.i])
    /\ UNCHANGED replayRest

VersionsReplayed ==
    /\ vr.pc = "update" /\ vr.i > Len(vr.versions)
    /\ vr' = [vr EXCEPT !.pc = "done"]
    /\ UNCHANGED replayRest

NextReplay ==
    \/ UpdateVersion
    \/ UploadVersionFiles
    \/ NoteVersion
    \/ VersionsReplayed

SpecReplay == InitReplay /\ [][NextReplay]_vars

(* C28 as stated: the replay of a ticket's versions never stops on an      *)
(* absent timestamp, the created_at of the ticket or of a version missing  *)
(* included.                                                               *)
C28_NoPanic == vr.pc # "panic"

(* What the code does: the replay stops at the first version when the      *)
(* ticket has no created_at, and at the first version that has none; it    *)
(* gets through when every timestamp compared is present.                  *)
C28_PanicOnAbsent ==
    /\ vr.pc = "panic" =>
         vr.versions[vr.i].CreatedAt = NilTime \/ vr.ticket.CreatedAt = NilTime
    /\ (vr.pc = "done" /\ vr.versions # <<>>) =>
         /\ vr.ticket.CreatedAt # NilTime
         /\ \A k \in 1..Len(vr.versions) : vr.versions[k].CreatedAt # NilTime

(* A ticket with a created_at whose second version has none: the first     *)
(* version is replayed, the second stops the process.                      *)
C28_Witness ==
    /\ vr.pc = "panic"
    /\ vr.ticket.CreatedAt = 1
    /\ Len(vr.versions) = 2
    /\ vr.versions[1].CreatedAt = 1
    /\ vr.versions[2].CreatedAt = NilTime
    /\ vr.i = 2

-----------------------------------------------------------------------------
(* The body of the response in a service operation: open from the moment   *)
(* the transport returns the response, closed by resp.Body.Close().  Every *)
(* operation follows one of seven shapes; the transport and CheckResponse  *)
(* are those of the lighthouse package, which return and inspect the       *)
(* response and do not close its body.                                     *)

BodyOps ==
    {"List", "GetByID", "Create", "Update", "DeleteByID", "GetAttachment",
     "AddAttachment"}

(* The operations that write a request body first.                         *)
BodyEncodes(op) == op \in {"Create", "Update", "AddAttachment"}

(* The operations that decode the response.                                *)
BodyDecodes(op) == op \in {"List", "GetByID", "Create"}

BodyExpects(op) == IF op = "Create" THEN StatusCreated ELSE StatusOK

(* defer resp.Body.Close() after the transport returned without error:     *)
(* every operation has it but GetAttachment.                               *)
BodyDefers(op) == op # "GetAttachment"

BodyReturning(s, e) == [s EXCEPT !.pc = "returning", !.err = e]

(* Marshalling the entity, or writing the multipart form: a failure        *)
(* returns before any request is made.                                     *)
BodyEncoded(s, ok) ==
    IF ok THEN [s EXCEPT !.pc = "send"] ELSE BodyReturning(s, "encode")

(* s.s.RoundTrip (s.s.Client.Do in AddAttachment), the test of its error   *)
(* and the defer statement.                                                *)
BodySent(s, ok, status, valid) ==
    IF ~ok THEN BodyReturning(s, "transport")
    ELSE [s EXCEPT !.pc = "check", !.status = status, !.valid = valid,
                   !.open = TRUE, !.deferred = BodyDefers(s.op)]

(* lighthouse.CheckResponse and what follows it when nothing is decoded.   *)
BodyChecked(s) ==
    IF s.status # BodyExpects(s.op) THEN BodyReturning(s, "status")
    ELSE IF BodyDecodes(s.op) THEN [s EXCEPT !.pc = "decode"]
    ELSE IF s.op = "GetAttachment" THEN [BodyReturning(s, "") EXCEPT !.handed = TRUE]
    ELSE BodyReturning(s, "")

BodyDecoded(s) == BodyReturning(s, IF s.valid THEN "" ELSE "decode")

(* The return of the operation: the deferred Close runs.                   *)
BodyReturned(s) ==
    IF s.deferred
    THEN [s EXCEPT !.pc = "returned", !.open = FALSE, !.closes = @ + 1]
    ELSE [s EXCEPT !.pc = "returned"]

(* The export reads the attachment with ioutil.ReadAll.                    *)
BodyRead(s) == [s EXCEPT !.pc = "read"]

InitBody ==
    /\ ClientIdle
    /\ ExportOff /\ MigrateOff /\ DeleteOff /\ SignalOff /\ FilenameOff /\ LoadOff
    /\ ConvertOff /\ ArchiveOff /\ LabelsOff /\ ReplayOff
    /\ \E op \in BodyOps :
         bd = [BodyIdle EXCEPT !.pc = IF BodyEncodes(op) THEN "encode" ELSE "send",
                               !.op = op]

EncodeRequest ==
    /\ bd.pc = "encode"
    /\ \E ok \in BOOLEAN : bd' = BodyEncoded(bd, ok)
    /\ UNCHANGED bodyRest

SendRequest ==
    /\ bd.pc = "send"
    /\ \E ok \in BOOLEAN, status \in ServerStatuses, valid \in BOOLEAN :
         /\ ok \/ (status = StatusOK /\ valid)
         /\ bd' = BodySent(bd, ok, status, valid)
    /\ UNCHANGED bodyRest

CheckStatus ==
    /\ bd.pc = "check"
    /\ bd' = BodyChecked(bd)
    /\ UNCHANGED bodyRest

DecodeResponse ==
    /\ bd.pc = "decode"
    /\ bd' = BodyDecoded(bd)
    /\ UNCHANGED bodyRest

ReturnFromOp ==
    /\ bd.pc = "returning"
    /\ bd' = BodyReturned(bd)
    /\ UNCHANGED bodyRest

ReadAttachment ==
    /\ bd.pc = "returned" /\ bd.handed
    /\ bd' = BodyRead(bd)
    /\ UNCHANGED bodyRest

NextBody ==
    \/ EncodeRequest
    \/ SendRequest
    \/ CheckStatus
    \/ DecodeResponse
    \/ ReturnFromOp
    \/ ReadAttachment

SpecBody == InitBody /\ [][NextBody]_vars

ResponseObtained == bd.pc = "returned" /\ bd.status # 0

(* C29 as stated: when an operation that obtained a response returns, the  *)
(* body has been closed exactly once, except that a successful             *)
(* GetAttachment returns with the body open, for its caller.               *)
C29_ClosedOnce ==
    ResponseObtained =>
        IF bd.op = "GetAttachment" /\ bd.err = ""
        THEN bd.open /\ bd.closes = 0 /\ bd.handed
        ELSE ~bd.open /\ bd.closes = 1

(* What the code does: every operation but GetAttachment closes the body   *)
(* once on each return path; GetAttachment never closes it, and hands it   *)
(* over on success only.                                                   *)
C29_ClosedOnceButAttachment ==
    ResponseObtained =>
        IF bd.op = "GetAttachment"
        THEN bd.open /\ bd.closes = 0 /\ (bd.handed <=> bd.err = "")
        ELSE ~bd.open /\ bd.closes = 1

(* GetAttachment answered 404: the error is returned, the body is open and *)
(* nobody holds it.                                                        *)
C29_Witness ==
    /\ bd.pc = "returned"
    /\ bd.op = "GetAttachment"
    /\ bd.status = 404
    /\ bd.err = "status"
    /\ bd.open
    /\ bd.closes = 0
    /\ ~bd.handed

-----------------------------------------------------------------------------
(* C30: when Create fails on the transport or on the status of the         *)
(* response, the caller's entity is as it was before the call.             *)
C30_CreateFailureKeepsEntity ==
    (CreateReturned /\ (log[1].resp.neterr \/ log[1].resp.status # StatusCreated)) =>
        /\ ret.err # NoErr
        /\ ent = call.draft

(* The server created the entity and answered 200 with it: Create returns  *)
(* the status error and the caller's entity has none of the response's     *)
(* values.                                                                 *)
C30_Witness ==
    /\ CreateReturned
    /\ ~log[1].resp.neterr
    /\ log[1].resp.status = StatusOK
    /\ ret.err = ErrStatus(StatusOK)
    /\ \E f \in DOMAIN log[1].resp.obj : log[1].resp.obj[f] # call.draft[f]
    /\ ent = call.draft

====
